---- MODULE Spec2Model ----
(***************************************************************************)
(* Model of the domino expression engine (src/expression.go) and of the    *)
(* request builders that use it (src/domino.go): Query with its filter     *)
(* expression and UpdateItem with its condition and update expressions.    *)
(*                                                                         *)
(* Go strings that are compared for equality as map keys (placeholders)    *)
(* are sequences of one-character strings.  Rendered expressions are       *)
(* sequences of pieces: the literal pieces of the format strings, the      *)
(* field names, and the characters of the placeholders.                    *)
(***************************************************************************)
EXTENDS Integers, Sequences, FiniteSets, TLC

(***************************************************************************)
(* Bounds of the model.                                                    *)
(***************************************************************************)
\* largest number of expression nodes the caller holds at one time
MaxNodes == 5
\* largest number of clauses passed to one SetUpdateExpression call
MaxUpdates == 3
\* largest number of elements passed to one In(...) call
MaxInArgs == 100

(***************************************************************************)
(* Values (interface{} arguments) and their %v formatting.                 *)
(***************************************************************************)
StrVal(chars) == [t |-> "string", v |-> chars]
IntVal(n) == [t |-> "int", v |-> n]

DigitChar == <<"0", "1", "2", "3", "4", "5", "6", "7", "8", "9">>

RECURSIVE FormatUint(_)
FormatUint(n) ==
    IF n < 10 THEN <<DigitChar[n + 1]>>
    ELSE FormatUint(n \div 10) \o <<DigitChar[(n % 10) + 1]>>

FloatVal(n) == [t |-> "float64", v |-> n]
\* a *dynamodb.AttributeValue holding a string set of one element
StringSetVal(chars) == [t |-> "AttributeValue", SS |-> <<chars>>]
\* []interface{}{a}
ListVal(a) == [t |-> "list", v |-> <<a>>]

\* fmt's %v: a string prints as itself, an integer in decimal, a float64
\* without fraction as a signed integer, an attribute value through its
\* String method (awsutil.Prettify)
FormatValue(a) ==
    CASE a.t = "string" -> a.v
      [] a.t = "int" -> FormatUint(a.v)
      [] a.t = "float64" ->
            IF a.v < 0 THEN <<"-">> \o FormatUint(0 - a.v) ELSE FormatUint(a.v)
      [] a.t = "AttributeValue" ->
            <<"{", "\n", " ", " ", "S", "S", ":", " ", "[", "\"">> \o a.SS[1]
                \o <<"\"", "]", "\n", "}">>

\* dynamodbattribute.Marshal
RECURSIVE Marshal(_)
Marshal(a) ==
    CASE a.t = "string" -> [S |-> a.v]
      [] a.t = "int" -> [N |-> FormatValue(a)]
      [] a.t = "float64" -> [N |-> FormatValue(a)]
      [] a.t = "AttributeValue" -> [SS |-> a.SS]
      [] a.t = "list" -> [L |-> [i \in 1..Len(a.v) |-> Marshal(a.v[i])]]

\* the characters the regular expression [^a-zA-Z_0-9] does NOT match
nonalphaComplement ==
    {"a", "b", "c", "d", "e", "f", "g", "h", "i", "j", "k", "l", "m",
     "n", "o", "p", "q", "r", "s", "t", "u", "v", "w", "x", "y", "z",
     "A", "B", "C", "D", "E", "F", "G", "H", "I", "J", "K", "L", "M",
     "N", "O", "P", "Q", "R", "S", "T", "U", "V", "W", "X", "Y", "Z",
     "_", "0", "1", "2", "3", "4", "5", "6", "7", "8", "9"}

\* nonalpha.ReplaceAllString(r, "_")
ReplaceAllString(r) ==
    [i \in 1..Len(r) |-> IF r[i] \in nonalphaComplement THEN r[i] ELSE "_"]

\* faulty variant: the value and the counter are joined without the separator
generatePlaceholder_NoSeparator(a, counter) ==
    <<":">> \o ReplaceAllString(FormatValue(a) \o FormatUint(counter))

generatePlaceholder(a, counter) ==
    <<":">> \o ReplaceAllString(FormatValue(a) \o <<"_">> \o FormatUint(counter))

(***************************************************************************)
(* Maps.  A Go map is a function; the nil map and the empty map are both   *)
(* the function with the empty domain (the code never makes a non-nil      *)
(* empty map in construct).                                                *)
(***************************************************************************)
NilMap == <<>>

\* for k, v := range p { m[k] = v }
MergeInto(m, p) ==
    [k \in (DOMAIN m) \cup (DOMAIN p) |-> IF k \in DOMAIN p THEN p[k] ELSE m[k]]

\* m[k] = v
MapPut(m, k, v) == [x \in (DOMAIN m) \cup {k} |-> IF x = k THEN v ELSE m[x]]

(***************************************************************************)
(* Expressions: Condition, ExpressionGroup, negation.                      *)
(***************************************************************************)
Condition(f, name, op, args) ==
    [kind |-> "Condition", exprF |-> [f |-> f, name |-> name, op |-> op], args |-> args]

And(c) == [kind |-> "ExpressionGroup", expressions |-> c, op |-> "AND"]
Or(c) == [kind |-> "ExpressionGroup", expressions |-> c, op |-> "OR"]
Not(c) == [kind |-> "negation", expression |-> c]

Equals(name, a) == Condition("operation", name, "=", <<a>>)
Between(name, a, b) == Condition("between", name, "", <<a, b>>)
In(name, elems) == Condition("in", name, "", elems)
Exists(name) == Condition("attribute_exists", name, "", <<>>)
NotExists(name) == Condition("attribute_not_exists", name, "", <<>>)

RECURSIVE Join(_, _)
\* strings.Join(placeholders, sep)
Join(placeholders, sep) ==
    IF Len(placeholders) = 0 THEN <<>>
    ELSE IF Len(placeholders) = 1 THEN placeholders[1]
    ELSE LET h == Len(placeholders) \div 2
         IN Join(SubSeq(placeholders, 1, h), sep) \o <<sep>>
                \o Join(SubSeq(placeholders, h + 1, Len(placeholders)), sep)

\* the closures exprF of the condition constructors
exprF(f, placeholders) ==
    CASE f.f = "operation" -> <<f.name, " ", f.op, " ">> \o placeholders[1]
      [] f.f = "between" ->
            <<"(", f.name, " between ">> \o placeholders[1] \o <<" and ">>
                \o placeholders[2] \o <<")">>
      [] f.f = "in" -> <<"(", f.name, " in (">> \o Join(placeholders, ",") \o <<"))">>
      [] f.f = "attribute_exists" -> <<"attribute_exists(", f.name, ")">>
      [] f.f = "attribute_not_exists" -> <<"attribute_not_exists(", f.name, ")">>

RECURSIVE construct(_, _, _)
RECURSIVE ExpressionGroupLoop(_, _, _, _, _, _)

\* faulty variant: the counter is not advanced after a placeholder is generated
ConditionPlaceholders_NoIncrement(args, counter) ==
    [i \in 1..Len(args) |-> generatePlaceholder(args[i], counter)]

\* the slice a after the loop over c.args of Condition.construct: iteration i
\* runs with the counter advanced i - 1 times
ConditionPlaceholders(args, counter) ==
    [i \in 1..Len(args) |-> generatePlaceholder(args[i], counter + i - 1)]

\* the map m after the loop over c.args: m[a[i]] = b for every i in turn, so
\* the last argument written under a key stays
ConditionValues(args, a) ==
    [k \in {a[i] : i \in 1..Len(args)} |->
        args[CHOOSE i \in 1..Len(args) : a[i] = k /\ \A j \in (i + 1)..Len(args) : a[j] # k]]

\* faulty variant: every placeholder is bound to the first argument
Condition_construct_FirstArg(c, counter, topLevel) ==
    LET a == ConditionPlaceholders(c.args, counter)
    IN [expr |-> exprF(c.exprF, a), exprNames |-> NilMap,
        exprValues |-> [k \in DOMAIN ConditionValues(c.args, a) |-> c.args[1]],
        c |-> counter + Len(c.args)]

Condition_construct(c, counter, topLevel) ==
    LET a == ConditionPlaceholders(c.args, counter)
    IN [expr |-> exprF(c.exprF, a), exprNames |-> NilMap,
        exprValues |-> ConditionValues(c.args, a), c |-> counter + Len(c.args)]

\* faulty variant: every child starts at the counter the group started at
ExpressionGroupLoop_SameCounter(e, i, counter, expr, exprNames, exprValues) ==
    IF i > Len(e.expressions)
    THEN [expr |-> expr, exprNames |-> exprNames, exprValues |-> exprValues, c |-> counter]
    ELSE LET sep == IF i > 1 THEN <<" ", e.op, " ">> ELSE <<>>
             sub == construct(e.expressions[i], counter, FALSE)
         IN ExpressionGroupLoop(e, i + 1, counter, expr \o sep \o sub.expr,
                                MergeInto(exprNames, sub.exprNames),
                                MergeInto(exprValues, sub.exprValues))

\* the loop over e.expressions of ExpressionGroup.construct
ExpressionGroupLoop(e, i, counter, expr, exprNames, exprValues) ==
    IF i > Len(e.expressions)
    THEN [expr |-> expr, exprNames |-> exprNames, exprValues |-> exprValues, c |-> counter]
    ELSE LET sep == IF i > 1 THEN <<" ", e.op, " ">> ELSE <<>>
             sub == construct(e.expressions[i], counter, FALSE)
             values == IF exprValues = NilMap /\ Cardinality(DOMAIN sub.exprValues) > 0
                       THEN sub.exprValues
                       ELSE MergeInto(exprValues, sub.exprValues)
             names == IF exprNames = NilMap /\ Cardinality(DOMAIN sub.exprNames) > 0
                      THEN sub.exprNames
                      ELSE MergeInto(exprNames, sub.exprNames)
         IN ExpressionGroupLoop(e, i + 1, sub.c, expr \o sep \o sub.expr, names, values)

\* faulty variant: the group is wrapped whatever topLevel is
ExpressionGroup_construct_AlwaysParens(e, counter, topLevel) ==
    LET l == ExpressionGroupLoop(e, 1, counter, <<>>, NilMap, NilMap)
    IN [l EXCEPT !.expr = IF Len(e.expressions) > 1
                          THEN <<"(">> \o l.expr \o <<")">>
                          ELSE l.expr]

ExpressionGroup_construct(e, counter, topLevel) ==
    LET l == ExpressionGroupLoop(e, 1, counter, <<>>, NilMap, NilMap)
    IN [l EXCEPT !.expr = IF ~topLevel /\ Len(e.expressions) > 1
                          THEN <<"(">> \o l.expr \o <<")">>
                          ELSE l.expr]

\* faulty variant: the negation is wrapped whatever topLevel is
negation_construct_AlwaysParens(n, counter, topLevel) ==
    LET s == construct(n.expression, counter, topLevel)
        r == <<"NOT ">> \o s.expr
    IN [s EXCEPT !.expr = <<"(">> \o r \o <<")">>]

negation_construct(n, counter, topLevel) ==
    LET s == construct(n.expression, counter, topLevel)
        r == <<"NOT ">> \o s.expr
    IN [s EXCEPT !.expr = IF ~topLevel THEN <<"(">> \o r \o <<")">> ELSE r]

\* dynamic dispatch of Expression.construct
construct(e, counter, topLevel) ==
    CASE e.kind = "Condition" -> Condition_construct(e, counter, topLevel)
      [] e.kind = "ExpressionGroup" -> ExpressionGroup_construct(e, counter, topLevel)
      [] e.kind = "negation" -> negation_construct(e, counter, topLevel)

(***************************************************************************)
(* Pointers to strings: nil, or a string.                                  *)
(***************************************************************************)
NilString == [set |-> FALSE, s |-> <<>>]
StringPtr(s) == [set |-> TRUE, s |-> s]

\* dynamodbattribute.MarshalMap
MarshalMap(m) == [k \in DOMAIN m |-> Marshal(m[k])]

\* appendAttribute called for every entry of m
appendAttributes(eav, m) == MergeInto(eav, MarshalMap(m))

(***************************************************************************)
(* Query.                                                                  *)
(***************************************************************************)
NilCondition == [kind |-> "nil"]

\* faulty variant: the key condition is constructed as a nested expression
Query_NotTopLevel(partitionKeyCondition, rangeKeyCondition) ==
    LET e == IF rangeKeyCondition # NilCondition
             THEN And(<<partitionKeyCondition, rangeKeyCondition>>)
             ELSE partitionKeyCondition
        r == construct(e, 0, FALSE)
    IN [kind |-> "query",
        KeyConditionExpression |-> StringPtr(r.expr),
        FilterExpression |-> NilString,
        ExpressionAttributeValues |-> appendAttributes(NilMap, r.exprValues)]

Query(partitionKeyCondition, rangeKeyCondition) ==
    LET e == IF rangeKeyCondition # NilCondition
             THEN And(<<partitionKeyCondition, rangeKeyCondition>>)
             ELSE partitionKeyCondition
        r == construct(e, 0, TRUE)
    IN [kind |-> "query",
        KeyConditionExpression |-> StringPtr(r.expr),
        FilterExpression |-> NilString,
        ExpressionAttributeValues |-> appendAttributes(NilMap, r.exprValues)]

SetFilterExpression(d, c) ==
    LET r == construct(c, 1, TRUE)
    IN [d EXCEPT !.FilterExpression = StringPtr(r.expr),
                 !.ExpressionAttributeValues = appendAttributes(@, r.exprValues)]

(***************************************************************************)
(* Update expressions: UpdateExpression{op, f}.                            *)
(***************************************************************************)
SetField(name, a, onlyIfEmpty) ==
    [op |-> "SET", f |-> [f |-> "SetField", name |-> name, a |-> a, onlyIfEmpty |-> onlyIfEmpty]]
RemoveField(name) == [op |-> "REMOVE", f |-> [f |-> "RemoveField", name |-> name]]
Add(name, amount) == [op |-> "ADD", f |-> [f |-> "Add", name |-> name, a |-> FloatVal(amount)]]
Increment(name, by) == Add(name, by)
Decrement(name, by) == Add(name, 0 - by)
ListRemove(name, index) ==
    [op |-> "REMOVE", f |-> [f |-> "ListRemove", name |-> name, index |-> index]]
SetDelete(name, a) == [op |-> "DELETE", f |-> [f |-> "SetDelete", name |-> name, a |-> a]]
DeleteString(name, chars) == SetDelete(name, StringSetVal(chars))
SetAdd(name, a) == [op |-> "ADD", f |-> [f |-> "SetAdd", name |-> name, a |-> a]]
AddString(name, chars) == SetAdd(name, StringSetVal(chars))
ListAppend(name, a) == [op |-> "SET", f |-> [f |-> "ListAppend", name |-> name, a |-> a]]
ListSet(name, index, a) ==
    [op |-> "SET", f |-> [f |-> "ListSet", name |-> name, index |-> index, a |-> a]]

\* the closure f of an update expression, called with counter c
UpdateExpression_f(f, c) ==
    CASE f.f = "SetField" ->
            LET ph == generatePlaceholder(f.a, c)
                r == IF f.onlyIfEmpty
                     THEN <<"if_not_exists(", f.name, ",">> \o ph \o <<")">>
                     ELSE ph
            IN [s |-> <<f.name, " = ">> \o r, m |-> MapPut(NilMap, ph, f.a), c |-> c + 1]
      [] f.f = "RemoveField" -> [s |-> <<f.name>>, m |-> NilMap, c |-> c + 1]
      [] f.f = "Add" ->
            LET ph == generatePlaceholder(f.a, c)
            IN [s |-> <<f.name, " ">> \o ph, m |-> MapPut(NilMap, ph, f.a), c |-> c + 1]
      [] f.f = "ListRemove" ->
            [s |-> <<f.name, "[">> \o FormatUint(f.index) \o <<"]">>, m |-> NilMap, c |-> c]
      [] f.f = "SetDelete" ->
            LET ph == generatePlaceholder(f.a, c)
            IN [s |-> <<f.name, " ">> \o ph, m |-> MapPut(NilMap, ph, ListVal(f.a)),
                c |-> c + 1]
      [] f.f = "SetAdd" ->
            LET ph == generatePlaceholder(IntVal(c), c)
            IN [s |-> <<f.name, " ">> \o ph, m |-> MapPut(NilMap, ph, f.a), c |-> c + 1]
      [] f.f = "ListAppend" ->
            LET ph == generatePlaceholder(f.a, c)
            IN [s |-> <<f.name, " = list_append(">> \o ph \o <<",", f.name, ")">>,
                m |-> MapPut(NilMap, ph, ListVal(f.a)), c |-> c + 1]
      [] f.f = "ListSet" ->
            LET ph == generatePlaceholder(f.a, c)
            IN [s |-> <<f.name, "[">> \o FormatUint(f.index) \o <<"] = ">> \o ph,
                m |-> MapPut(NilMap, ph, ListVal(f.a)), c |-> c + 1]

(***************************************************************************)
(* UpdateItem.                                                             *)
(***************************************************************************)
UpdateItem ==
    [kind |-> "update",
     input |-> [ConditionExpression |-> NilString, UpdateExpression |-> NilString,
                ExpressionAttributeValues |-> NilMap],
     delayedFunctions |-> <<>>]

\* the closure SetConditionExpression appends to d.delayedFunctions
SetConditionExpression_delayed(d, c) ==
    LET r == construct(c, 1, TRUE)
    IN [d EXCEPT !.input.ConditionExpression = StringPtr(r.expr),
                 !.input.ExpressionAttributeValues = MergeInto(@, MarshalMap(r.exprValues))]

SetConditionExpression(d, c) ==
    [d EXCEPT !.delayedFunctions = Append(@, [f |-> "SetConditionExpression", c |-> c])]

\* ms[op], the empty string when ms has no such key
Lookup(ms, op) == IF op \in DOMAIN ms THEN ms[op] ELSE <<>>

RECURSIVE SetUpdateExpressionLoop(_, _, _, _, _)

\* faulty variant: a clause replaces the clauses collected for its keyword
SetUpdateExpressionLoop_Overwrite(exprs, i, c, m, ms) ==
    IF i > Len(exprs) THEN [m |-> m, ms |-> ms]
    ELSE LET r == UpdateExpression_f(exprs[i].f, c)
         IN SetUpdateExpressionLoop(exprs, i + 1, r.c, MergeInto(m, r.m),
                                    MapPut(ms, exprs[i].op, r.s))

\* the loop over exprs of SetUpdateExpression
SetUpdateExpressionLoop(exprs, i, c, m, ms) ==
    IF i > Len(exprs) THEN [m |-> m, ms |-> ms]
    ELSE LET r == UpdateExpression_f(exprs[i].f, c)
             op == exprs[i].op
         IN SetUpdateExpressionLoop(exprs, i + 1, r.c, MergeInto(m, r.m),
                MapPut(ms, op, IF Lookup(ms, op) = <<>> THEN r.s
                                ELSE ms[op] \o <<", ">> \o r.s))

RECURSIVE RangeLoop(_, _)
\* for k, v := range ms { s += k + " " + v + " " }, visiting the keys in order
RangeLoop(ms, order) ==
    IF Len(order) = 0 THEN <<>>
    ELSE <<order[1], " ">> \o ms[order[1]] \o <<" ">> \o RangeLoop(ms, Tail(order))

\* the orders in which a range loop can visit the keys of ms
RangeOrders(ms) ==
    {o \in [1..Cardinality(DOMAIN ms) -> DOMAIN ms] :
        \A i, j \in DOMAIN o : i # j => o[i] # o[j]}

SetUpdateExpression(d, exprs, order) ==
    LET l == SetUpdateExpressionLoop(exprs, 1, 100, NilMap, NilMap)
    IN [d EXCEPT !.input.UpdateExpression = StringPtr(RangeLoop(l.ms, order)),
                 !.input.ExpressionAttributeValues = MergeInto(@, MarshalMap(l.m))]

Build(d) == d.input

(***************************************************************************)
(* The caller's inputs: the expressions it can build with the constructors *)
(* above, bounded by their number of nodes.                                *)
(***************************************************************************)
\* two strings that differ only in a character the sanitizer replaces
ValueA == StrVal(<<"a", "-", "b">>)
ValueB == StrVal(<<"a", "_", "b">>)

\* the leaf conditions the caller uses: without arguments, with one, and with
\* two arguments that differ but are alike once sanitized
Leaves == {Equals("x", ValueA), Exists("y"), Between("d", ValueA, ValueB)}

\* the expressions the caller starts from: a leaf, or an And/Or without arguments
Atoms == Leaves \cup {And(<<>>), Or(<<>>)}

RECURSIVE Size(_)
RECURSIVE SeqSum(_)
SeqSum(s) == IF Len(s) = 0 THEN 0 ELSE s[1] + SeqSum(Tail(s))

\* the number of nodes of an expression
Size(e) ==
    CASE e.kind = "Condition" -> 1
      [] e.kind = "negation" -> 1 + Size(e.expression)
      [] e.kind = "ExpressionGroup" ->
            1 + SeqSum([i \in 1..Len(e.expressions) |-> Size(e.expressions[i])])

RECURSIVE Grow(_)
\* the expressions with one node more than e that the caller gets by writing
\* one more constructor call somewhere in the source text of e: a Not, And or
\* Or around a sub-expression, or one more leaf at the end of a group
Grow(e) ==
    {Not(e), And(<<e>>), Or(<<e>>)} \cup
    CASE e.kind = "Condition" -> {}
      [] e.kind = "negation" -> {Not(g) : g \in Grow(e.expression)}
      [] e.kind = "ExpressionGroup" ->
            {[e EXCEPT !.expressions = Append(@, c)] : c \in Leaves}
            \cup UNION {{[e EXCEPT !.expressions[i] = g] : g \in Grow(e.expressions[i])}
                        : i \in 1..Len(e.expressions)}

StartCounters == {0, 1, 99}

\* the range-key conditions the caller passes to Query (nil: none)
RangeKeyConditions ==
    {NilCondition, Equals("password", ValueB), Between("password", ValueA, ValueB)}

\* the update expressions the caller passes to SetUpdateExpression
UpdateExpressions ==
    {SetField("x", ValueB, FALSE), SetField("y", ValueA, TRUE), RemoveField("z"),
     Increment("n", 1), ListRemove("l", 0), DeleteString("s", <<"u", "s">>)}

\* the update expressions on set-typed fields the caller passes
SetExpressions == {AddString("t", <<"u", "s">>), DeleteString("s", <<"u", "s">>)}

\* the update expressions on list-typed fields the caller passes
ListExpressions == {ListAppend("l", ValueA), ListSet("l", 1, ValueB)}

RECURSIVE ListsUpTo(_, _)
\* the lists of at most n elements of S
ListsUpTo(S, n) ==
    IF n = 0 THEN {<<>>}
    ELSE {<<>>} \cup {<<x>> \o l : x \in S, l \in ListsUpTo(S, n - 1)}

\* the conditions the caller passes to SetConditionExpression
UpdateConditions ==
    {Equals("n", IntVal(0)), And(<<Equals("x", ValueA), Not(Exists("y"))>>)}

\* In(...) over n equal elements
WideConditions == {In("z", [i \in 1..n |-> ValueA]) : n \in 0..MaxInArgs}

(***************************************************************************)
(* State: the caller's expression and arguments, the value returned by the *)
(* last construct call, the request builders and the request built.        *)
(***************************************************************************)
VARIABLES expr, out, pk, rk, clauses, q, u, req

\* two generatePlaceholder calls and their results
VARIABLES ph

\* the database table read by Query and Scan, the goroutine started by a
\* stream call, the item and error channels, and the consumer of the channels
VARIABLES db, prod, chans, cons

\* a batchGet and a batchPut with the calls made on them
VARIABLES bg, bw

\* a get with the call made on it, and a createTable with the table it is for
VARIABLES gi, ct

builderVars == <<expr, out, pk, rk, clauses, q, u, req>>
placeholderVars == <<ph>>
streamVars == <<db, prod, chans, cons>>
batchVars == <<bg, bw>>
tableVars == <<gi, ct>>

vars == <<expr, out, pk, rk, clauses, q, u, req, ph, db, prod, chans, cons, bg, bw,
          gi, ct>>

None == [kind |-> "none"]

NoBuilders ==
    /\ expr = None
    /\ out = None
    /\ pk = None
    /\ rk = None
    /\ clauses = <<>>
    /\ q = None
    /\ u = None
    /\ req = None

NoPlaceholders == ph = None

NoStream ==
    /\ db = None
    /\ prod = None
    /\ chans = None
    /\ cons = None

NoBatch ==
    /\ bg = None
    /\ bw = None

NoTables ==
    /\ gi = None
    /\ ct = None

\* the caller writes a larger expression
Compose ==
    /\ out = None
    /\ q = None
    /\ Size(expr) < MaxNodes
    /\ \E g \in Grow(expr) : expr' = g
    /\ UNCHANGED <<out, pk, rk, clauses, q, u, req>>
    /\ UNCHANGED <<placeholderVars, streamVars, batchVars, tableVars>>

\* a call expr.construct(counter, topLevel)
ConstructCall ==
    /\ out = None
    /\ \E counter \in StartCounters, topLevel \in BOOLEAN :
          out' = [kind |-> "construct", counter |-> counter, topLevel |-> topLevel,
                  r |-> construct(expr, counter, topLevel)]
    /\ UNCHANGED <<expr, pk, rk, clauses, q, u, req>>
    /\ UNCHANGED <<placeholderVars, streamVars, batchVars, tableVars>>

InitExpr ==
    /\ expr \in Atoms
    /\ out = None
    /\ pk = None
    /\ rk = None
    /\ clauses = <<>>
    /\ q = None
    /\ u = None
    /\ req = None
    /\ NoPlaceholders
    /\ NoTables
    /\ NoStream
    /\ NoBatch

NextExpr == Compose \/ ConstructCall

SpecExpr == InitExpr /\ [][NextExpr]_vars

\* table.Query(pk, rk)
QueryCall ==
    /\ q = None
    /\ q' = Query(pk, rk)
    /\ UNCHANGED <<expr, out, pk, rk, clauses, u, req>>
    /\ UNCHANGED <<placeholderVars, streamVars, batchVars, tableVars>>

\* q.SetFilterExpression(expr)
SetFilterExpressionCall ==
    /\ q # None
    /\ ~q.FilterExpression.set
    /\ q' = SetFilterExpression(q, expr)
    /\ UNCHANGED <<expr, out, pk, rk, clauses, u, req>>
    /\ UNCHANGED <<placeholderVars, streamVars, batchVars, tableVars>>

InitQuery ==
    /\ expr \in Atoms
    /\ out = None
    /\ pk = Equals("email", ValueA)
    /\ rk \in RangeKeyConditions
    /\ clauses = <<>>
    /\ q = None
    /\ u = None
    /\ req = None
    /\ NoPlaceholders
    /\ NoTables
    /\ NoStream
    /\ NoBatch

NextQuery == Compose \/ QueryCall \/ SetFilterExpressionCall

SpecQuery == InitQuery /\ [][NextQuery]_vars

\* table.UpdateItem(key)
UpdateItemCall ==
    /\ u = None
    /\ u' = UpdateItem
    /\ UNCHANGED <<expr, out, pk, rk, clauses, q, req>>
    /\ UNCHANGED <<placeholderVars, streamVars, batchVars, tableVars>>

\* u.SetConditionExpression(expr)
SetConditionExpressionCall ==
    /\ u # None
    /\ req = None
    /\ Len(u.delayedFunctions) = 0
    /\ u' = SetConditionExpression(u, expr)
    /\ UNCHANGED <<expr, out, pk, rk, clauses, q, req>>
    /\ UNCHANGED <<placeholderVars, streamVars, batchVars, tableVars>>

\* the keyword groups SetUpdateExpression collects from exprs
UpdateGroups(exprs) == SetUpdateExpressionLoop(exprs, 1, 100, NilMap, NilMap).ms

\* u.SetUpdateExpression(clauses...)
SetUpdateExpressionCall ==
    /\ u # None
    /\ req = None
    /\ ~u.input.UpdateExpression.set
    /\ \E order \in RangeOrders(UpdateGroups(clauses)) :
          u' = SetUpdateExpression(u, clauses, order)
    /\ UNCHANGED <<expr, out, pk, rk, clauses, q, req>>
    /\ UNCHANGED <<placeholderVars, streamVars, batchVars, tableVars>>

\* u.Build()
BuildCall ==
    /\ u # None
    /\ req = None
    /\ req' = [kind |-> "Build", input |-> Build(u)]
    /\ UNCHANGED <<expr, out, pk, rk, clauses, q, u>>
    /\ UNCHANGED <<placeholderVars, streamVars, batchVars, tableVars>>

\* u.ExecuteWith(dynamo): the request handed to dynamo.UpdateItem
ExecuteWithCall ==
    /\ u # None
    /\ req = None
    /\ req' = [kind |-> "ExecuteWith", input |-> Build(u)]
    /\ UNCHANGED <<expr, out, pk, rk, clauses, q, u>>
    /\ UNCHANGED <<placeholderVars, streamVars, batchVars, tableVars>>

InitUpdate ==
    /\ \/ expr \in UpdateConditions /\ clauses \in ListsUpTo(UpdateExpressions, MaxUpdates)
       \/ expr \in WideConditions /\ clauses \in ListsUpTo(UpdateExpressions, 1)
       \/ expr \in UpdateConditions /\ clauses \in ListsUpTo(SetExpressions, MaxUpdates)
       \/ expr \in UpdateConditions /\ clauses \in ListsUpTo(ListExpressions, MaxUpdates)
    /\ out = None
    /\ pk = None
    /\ rk = None
    /\ q = None
    /\ u = None
    /\ req = None
    /\ NoPlaceholders
    /\ NoTables
    /\ NoStream
    /\ NoBatch

NextUpdate ==
    \/ UpdateItemCall
    \/ SetConditionExpressionCall
    \/ SetUpdateExpressionCall
    \/ BuildCall
    \/ ExecuteWithCall

SpecUpdate == InitUpdate /\ [][NextUpdate]_vars

(***************************************************************************)
(* Reference notions used to state the properties: the leaf arguments of   *)
(* an expression in declared (left-to-right) order, and the rendering the  *)
(* documentation describes, with the k-th leaf argument numbered by its    *)
(* position instead of by a threaded counter.                              *)
(***************************************************************************)
RECURSIVE LeafArgs(_)
RECURSIVE ConcatAll(_)
ConcatAll(ss) ==
    IF Len(ss) = 0 THEN <<>>
    ELSE IF Len(ss) = 1 THEN ss[1]
    ELSE LET h == Len(ss) \div 2
         IN ConcatAll(SubSeq(ss, 1, h)) \o ConcatAll(SubSeq(ss, h + 1, Len(ss)))

LeafArgs(e) ==
    CASE e.kind = "Condition" -> e.args
      [] e.kind = "negation" -> LeafArgs(e.expression)
      [] e.kind = "ExpressionGroup" ->
            ConcatAll([i \in 1..Len(e.expressions) |-> LeafArgs(e.expressions[i])])

NumArgs(e) == Len(LeafArgs(e))

\* the counter the i-th child of group e starts at, when e starts at first
ChildStart(e, i, first) ==
    first + Len(ConcatAll([j \in 1..(i - 1) |-> LeafArgs(e.expressions[j])]))

Parens(s) == <<"(">> \o s \o <<")">>

RECURSIVE Rendering(_, _, _)
Rendering(e, first, topLevel) ==
    CASE e.kind = "Condition" ->
            exprF(e.exprF, [i \in 1..Len(e.args) |->
                                generatePlaceholder(e.args[i], first + i - 1)])
      [] e.kind = "negation" ->
            LET r == <<"NOT ">> \o Rendering(e.expression, first, topLevel)
            IN IF topLevel THEN r ELSE Parens(r)
      [] e.kind = "ExpressionGroup" ->
            LET inner == ConcatAll([i \in 1..Len(e.expressions) |->
                            (IF i > 1 THEN <<" ", e.op, " ">> ELSE <<>>)
                            \o Rendering(e.expressions[i], ChildStart(e, i, first), FALSE)])
            IN IF ~topLevel /\ Len(e.expressions) > 1 THEN Parens(inner) ELSE inner

\* the placeholder of the k-th leaf argument of e, when e starts at first
KthPlaceholder(e, k, first) == generatePlaceholder(LeafArgs(e)[k], first + k - 1)

Constructed == out.kind = "construct"

(***************************************************************************)
(* C1: for every expression tree and every starting counter c, construct   *)
(* returns a value map with exactly N distinct keys, N the total number of *)
(* leaf arguments, and the counter c + N; leaves without arguments add no  *)
(* key and do not advance the counter.                                     *)
(***************************************************************************)
C1_KeysAndCounter ==
    Constructed =>
        /\ Cardinality(DOMAIN out.r.exprValues) = NumArgs(expr)
        /\ out.r.c = out.counter + NumArgs(expr)

\* a group holding a leaf without arguments and leaf arguments whose
\* sanitized forms are equal
C1_Witness ==
    /\ Constructed
    /\ expr.kind = "ExpressionGroup"
    /\ \E i \in 1..Len(expr.expressions) :
          expr.expressions[i].kind = "Condition" /\ Len(expr.expressions[i].args) = 0
    /\ NumArgs(expr) >= 3
    /\ \E i, j \in 1..NumArgs(expr) :
          /\ LeafArgs(expr)[i] # LeafArgs(expr)[j]
          /\ ReplaceAllString(FormatValue(LeafArgs(expr)[i]))
                = ReplaceAllString(FormatValue(LeafArgs(expr)[j]))

(***************************************************************************)
(* C5: ExpressionGroup.construct wraps its rendered string in exactly one  *)
(* pair of parentheses if and only if topLevel is false and the group has  *)
(* more than one child; every child is constructed with topLevel = false.  *)
(***************************************************************************)
ChildrenJoined(e, first) ==
    ConcatAll([i \in 1..Len(e.expressions) |->
        (IF i > 1 THEN <<" ", e.op, " ">> ELSE <<>>)
        \o construct(e.expressions[i], ChildStart(e, i, first), FALSE).expr])

C5_GroupParentheses ==
    (Constructed /\ expr.kind = "ExpressionGroup") =>
        out.r.expr = IF ~out.topLevel /\ Len(expr.expressions) > 1
                     THEN Parens(ChildrenJoined(expr, out.counter))
                     ELSE ChildrenJoined(expr, out.counter)

\* a nested group of two children inside a group that is not top level
C5_Witness ==
    /\ Constructed
    /\ ~out.topLevel
    /\ expr.kind = "ExpressionGroup"
    /\ Len(expr.expressions) > 1
    /\ \E i \in 1..Len(expr.expressions) :
          /\ expr.expressions[i].kind = "ExpressionGroup"
          /\ Len(expr.expressions[i].expressions) > 1

(***************************************************************************)
(* C6: for a leaf condition x, Not(x) renders "NOT " followed by x's       *)
(* rendering at top level, and that string in one pair of parentheses when *)
(* the negation is a child of an And/Or group; the value map and the       *)
(* returned counter are those of x.                                        *)
(***************************************************************************)
IsNotOfLeaf(e) == e.kind = "negation" /\ e.expression.kind = "Condition"

NotOfLeafAsChild(n, first) ==
    Parens(<<"NOT ">> \o Condition_construct(n.expression, first, FALSE).expr)

C6_Negation ==
    /\ (Constructed /\ out.topLevel /\ IsNotOfLeaf(expr)) =>
          LET x == Condition_construct(expr.expression, out.counter, TRUE)
          IN /\ out.r.expr = <<"NOT ">> \o x.expr
             /\ out.r.exprValues = x.exprValues
             /\ out.r.c = x.c
    /\ (Constructed /\ expr.kind = "ExpressionGroup"
            /\ \A i \in 1..Len(expr.expressions) : IsNotOfLeaf(expr.expressions[i])) =>
          LET inner == ConcatAll([i \in 1..Len(expr.expressions) |->
                          (IF i > 1 THEN <<" ", expr.op, " ">> ELSE <<>>)
                          \o NotOfLeafAsChild(expr.expressions[i],
                                              ChildStart(expr, i, out.counter))])
          IN out.r.expr = IF ~out.topLevel /\ Len(expr.expressions) > 1
                          THEN Parens(inner) ELSE inner

\* a top-level group whose two children are negations of leaves with arguments
C6_Witness ==
    /\ Constructed
    /\ out.topLevel
    /\ expr.kind = "ExpressionGroup"
    /\ Len(expr.expressions) = 2
    /\ \A i \in 1..2 :
          IsNotOfLeaf(expr.expressions[i]) /\ Len(expr.expressions[i].expression.args) > 0

(***************************************************************************)
(* C7: the value map maps the i-th generated placeholder of every leaf to  *)
(* that leaf's i-th argument, unchanged, also after merging in And/Or/Not  *)
(* parents: no entry is dropped or overwritten by another leaf.            *)
(***************************************************************************)
C7_ValuesRoundTrip ==
    Constructed =>
        LET args == LeafArgs(expr)
        IN \A k \in 1..Len(args) :
              LET p == generatePlaceholder(args[k], out.counter + k - 1)
              IN /\ p \in DOMAIN out.r.exprValues
                 /\ out.r.exprValues[p] = args[k]

\* two leaves under a group, with arguments that differ but sanitize alike
C7_Witness ==
    /\ Constructed
    /\ expr.kind = "ExpressionGroup"
    /\ Len(expr.expressions) >= 2
    /\ expr.expressions[1].kind = "Condition"
    /\ expr.expressions[2].kind = "negation"
    /\ NumArgs(expr.expressions[1]) = 1
    /\ NumArgs(expr.expressions[2]) = 2
    /\ LeafArgs(expr)[1] # LeafArgs(expr)[3]

(***************************************************************************)
(* C2: for a Query built with a partition-key condition, a range-key       *)
(* condition and then SetFilterExpression, the counters of the             *)
(* key-condition placeholders and of the filter placeholders are disjoint, *)
(* ExpressionAttributeValues holds a separate entry for every argument of  *)
(* both trees, and no filter argument overwrites a key-condition argument. *)
(***************************************************************************)
KeyExpression == IF rk # NilCondition THEN And(<<pk, rk>>) ELSE pk

FilterSet == q # None /\ q.FilterExpression.set

C2_DisjointKeyAndFilter ==
    (FilterSet /\ rk # NilCondition) =>
        /\ (0..(NumArgs(KeyExpression) - 1)) \cap (1..NumArgs(expr)) = {}
        /\ Cardinality(DOMAIN q.ExpressionAttributeValues)
              = NumArgs(KeyExpression) + NumArgs(expr)
        /\ \A k \in 1..NumArgs(KeyExpression) :
              q.ExpressionAttributeValues[KthPlaceholder(KeyExpression, k, 0)]
                  = Marshal(LeafArgs(KeyExpression)[k])

(***************************************************************************)
(* C3: when SetConditionExpression(e) was called on an UpdateItem builder, *)
(* before or after SetUpdateExpression, the request returned by Build and  *)
(* sent by ExecuteWith has ConditionExpression equal to the rendering of e *)
(* and has e's placeholder values in ExpressionAttributeValues.            *)
(***************************************************************************)
C3_ConditionInRequest ==
    (req # None /\ Len(u.delayedFunctions) > 0) =>
        LET e == u.delayedFunctions[1].c
        IN /\ req.input.ConditionExpression = StringPtr(Rendering(e, 1, TRUE))
           /\ \A k \in 1..NumArgs(e) :
                 /\ KthPlaceholder(e, k, 1) \in DOMAIN req.input.ExpressionAttributeValues
                 /\ req.input.ExpressionAttributeValues[KthPlaceholder(e, k, 1)]
                       = Marshal(LeafArgs(e)[k])

(***************************************************************************)
(* C4: for an UpdateItem request with a condition expression (numbered     *)
(* from 1) and update clauses (numbered from 100), no placeholder key      *)
(* generated for an update clause equals one generated for the condition,  *)
(* for condition trees with any number of leaf arguments.                  *)
(***************************************************************************)
\* the keys the delayed closure of SetConditionExpression generates for c
ConditionKeys(c) ==
    DOMAIN SetConditionExpression_delayed(UpdateItem, c).input.ExpressionAttributeValues

C8_FilterNumbering ==
    FilterSet =>
        /\ q.FilterExpression.s = Rendering(expr, 1, TRUE)
        /\ \A k \in 1..NumArgs(expr) :
              KthPlaceholder(expr, k, 1) \in DOMAIN q.ExpressionAttributeValues

\* a filter with a negation and a nested group among its children
C8_Witness ==
    /\ FilterSet
    /\ expr.kind = "ExpressionGroup"
    /\ Len(expr.expressions) >= 2
    /\ expr.expressions[1].kind = "negation"
    /\ NumArgs(expr.expressions[1]) >= 1
    /\ expr.expressions[2].kind = "ExpressionGroup"
    /\ NumArgs(expr.expressions[2]) >= 2

(***************************************************************************)
(* C9: in the UpdateExpression string made by SetUpdateExpression each     *)
(* keyword (SET, REMOVE, ADD, DELETE) occurs at most once and is followed  *)
(* by all clauses of that keyword, joined with ", " in the order they were *)
(* passed; every passed clause appears exactly once.                       *)
(***************************************************************************)
Keywords == {"SET", "REMOVE", "ADD", "DELETE"}

RECURSIVE ClauseCounter(_)
\* the counter the i-th passed clause is rendered with
ClauseCounter(i) ==
    IF i = 1 THEN 100 ELSE UpdateExpression_f(clauses[i - 1].f, ClauseCounter(i - 1)).c

ClauseString(i) == UpdateExpression_f(clauses[i].f, ClauseCounter(i)).s

RECURSIVE IndicesOf(_, _)
\* the positions from i on, in increasing order, of the clauses of keyword kw
IndicesOf(kw, i) ==
    IF i > Len(clauses) THEN <<>>
    ELSE (IF clauses[i].op = kw THEN <<i>> ELSE <<>>) \o IndicesOf(kw, i + 1)

KeywordGroup(kw) ==
    LET idx == IndicesOf(kw, 1)
    IN <<kw, " ">> \o Join([n \in 1..Len(idx) |-> ClauseString(idx[n])], ", ") \o <<" ">>

PassedKeywords == {clauses[i].op : i \in 1..Len(clauses)}

Occurrences(s, piece) == Cardinality({i \in 1..Len(s) : s[i] = piece})

UpdateSet == u # None /\ u.input.UpdateExpression.set

C9_KeywordGroups ==
    UpdateSet =>
        /\ \A kw \in Keywords : Occurrences(u.input.UpdateExpression.s, kw) <= 1
        /\ \E o \in [1..Cardinality(PassedKeywords) -> PassedKeywords] :
              /\ \A i, j \in DOMAIN o : i # j => o[i] # o[j]
              /\ u.input.UpdateExpression.s
                    = ConcatAll([n \in DOMAIN o |-> KeywordGroup(o[n])])

\* three clauses, two of one keyword around one of another keyword
C9_Witness ==
    /\ UpdateSet
    /\ Len(clauses) = 3
    /\ clauses[1].op = clauses[3].op
    /\ clauses[1] # clauses[3]
    /\ clauses[2].op # clauses[1].op

(***************************************************************************)
(* generatePlaceholder called twice by a caller that picks the value and   *)
(* the counter of each call.                                               *)
(***************************************************************************)
\* largest length of a string value passed to generatePlaceholder
MaxValueLen == 2
\* largest counter passed to generatePlaceholder
MaxCounter == 12

\* a digit, an underscore, and a character the sanitizer replaces
PlaceholderChars == {"1", "_", "-"}

PlaceholderValues == {StrVal(chars) : chars \in ListsUpTo(PlaceholderChars, MaxValueLen)}

\* generatePlaceholder(a, counter)
GeneratePlaceholderCall ==
    /\ Len(ph.calls) < 2
    /\ \E a \in PlaceholderValues, counter \in 0..MaxCounter :
          ph' = [ph EXCEPT !.calls = Append(@, [a |-> a, counter |-> counter,
                                                 r |-> generatePlaceholder(a, counter)])]
    /\ UNCHANGED <<builderVars, streamVars, batchVars, tableVars>>

InitPlaceholder ==
    /\ ph = [kind |-> "placeholders", calls |-> <<>>]
    /\ NoBuilders
    /\ NoStream
    /\ NoBatch
    /\ NoTables

NextPlaceholder == GeneratePlaceholderCall

SpecPlaceholder == InitPlaceholder /\ [][NextPlaceholder]_vars

(***************************************************************************)
(* C11: for all values v1, v2 (also values whose sanitized forms are equal *)
(* or contain underscores and digits) and all counters c1 # c2,            *)
(* generatePlaceholder(v1, c1) # generatePlaceholder(v2, c2).              *)
(***************************************************************************)
C11_DistinctPlaceholders ==
    ph # None =>
        \A i, j \in 1..Len(ph.calls) :
            ph.calls[i].counter # ph.calls[j].counter => ph.calls[i].r # ph.calls[j].r

\* two calls with different counters, one of more than one digit, and with
\* different values of the same sanitized form that hold an underscore and a
\* digit
C11_Witness ==
    /\ ph # None
    /\ Len(ph.calls) = 2
    /\ ph.calls[1].counter # ph.calls[2].counter
    /\ ph.calls[2].counter >= 10
    /\ ph.calls[1].a = StrVal(<<"_", "1">>)
    /\ ph.calls[2].a = StrVal(<<"-", "1">>)

(***************************************************************************)
(* C12: DynamoTable.Query builds the KeyConditionExpression from           *)
(* And(partitionKeyCondition, rangeKeyCondition) when a range condition is *)
(* given and from the partition condition alone when it is nil,            *)
(* constructed with counter 0 at top level: the string is                  *)
(* "<partition> AND <range>" without enclosing parentheses, and its        *)
(* placeholders carry the counters 0 and upward in that order.             *)
(***************************************************************************)
C12_KeyCondition ==
    (q # None /\ q.kind = "query") =>
        /\ q.KeyConditionExpression.set
        /\ q.KeyConditionExpression.s =
              IF rk # NilCondition
              THEN Rendering(pk, 0, FALSE) \o <<" ", "AND", " ">>
                       \o Rendering(rk, NumArgs(pk), FALSE)
              ELSE Rendering(pk, 0, TRUE)
        /\ \A k \in 1..NumArgs(KeyExpression) :
              KthPlaceholder(KeyExpression, k, 0) \in DOMAIN q.ExpressionAttributeValues

\* a query with a range-key condition of two arguments: counters 0, 1 and 2
C12_Witness ==
    /\ q # None
    /\ q.kind = "query"
    /\ rk # NilCondition
    /\ NumArgs(rk) = 2
    /\ ~q.FilterExpression.set

(***************************************************************************)
(* C13: for a set-typed field, both Add(av) and Delete(av) (and their      *)
(* typed wrappers) bind the generated placeholder to the set attribute     *)
(* value av itself, so that a DELETE clause removes exactly the given      *)
(* elements from the stored set and an ADD clause adds exactly them.       *)
(***************************************************************************)
\* the placeholder the i-th passed clause binds
ClausePlaceholder(i) ==
    CHOOSE k \in DOMAIN UpdateExpression_f(clauses[i].f, ClauseCounter(i)).m : TRUE

C13_SetOperandBound ==
    UpdateSet =>
        \A i \in 1..Len(clauses) :
            clauses[i].f.f \in {"SetAdd", "SetDelete"} =>
                /\ ClausePlaceholder(i) \in DOMAIN u.input.ExpressionAttributeValues
                /\ u.input.ExpressionAttributeValues[ClausePlaceholder(i)]
                      = Marshal(clauses[i].f.a)

(***************************************************************************)
(* Streams: Query and Scan executed page by page by a goroutine that sends *)
(* the items on an unbuffered item channel and an error on an unbuffered   *)
(* error channel, and the consumer that receives from the channels.        *)
(* The table holds the matching items 1..M in key order; the key of item k *)
(* is k.                                                                   *)
(***************************************************************************)
\* largest number of matching items in the table
MaxItems == 3

\* pointers to integers (*int64, and a key as LastEvaluatedKey): nil, or set
NilInt == [set |-> FALSE, v |-> 0]
IntPtr(n) == [set |-> TRUE, v |-> n]

QueryStreams == {"query.StreamWith", "query.StreamWithChannel"}
ScanStreams == {"scan.ExecuteWith", "scan.StreamWithChannel"}

\* the arguments of SetLimit and SetPageSize (nil: not called)
Limits == {NilInt} \cup {IntPtr(n) : n \in 0..(MaxItems + 1)}
PageSizes == {NilInt} \cup {IntPtr(n) : n \in 1..MaxItems}

\* the consumer selects on both channels (as query.ExecuteWith does), or
\* only ranges over the item channel
Consumers == {"select", "range"}

\* query.Build, scan.Build: the request of the next database call
StreamBuild(d) ==
    [Limit |-> IF d.pageSize.set THEN d.pageSize ELSE d.Limit,
     ExclusiveStartKey |-> d.ExclusiveStartKey]

\* the pages dynamo.Query / dynamo.Scan can answer a request with: at least
\* one and at most Limit of the items after ExclusiveStartKey, and a
\* LastEvaluatedKey when items remain or when the page is full
Pages(input, M) ==
    LET s == IF input.ExclusiveStartKey.set THEN input.ExclusiveStartKey.v ELSE 0
        rest == M - s
        most == IF input.Limit.set /\ input.Limit.v < rest THEN input.Limit.v ELSE rest
        keys(k) == IF s + k < M THEN {IntPtr(s + k)}
                   ELSE IF input.Limit.set /\ k = input.Limit.v
                        THEN {NilInt, IntPtr(M)}
                        ELSE {NilInt}
    IN IF rest = 0 THEN {[Items |-> <<>>, LastEvaluatedKey |-> NilInt]}
       ELSE UNION {{[Items |-> [i \in 1..k |-> s + i], LastEvaluatedKey |-> l]
                        : l \in keys(k)} : k \in 1..most}

\* faulty variant: the limit is taken as reached one item late
LimitReached_Late(d) == d.Limit.set /\ d.count > d.Limit.v

\* d.Limit != nil && count >= *d.Limit
LimitReached(d) == d.Limit.set /\ d.count >= d.Limit.v

\* faulty variant: the goroutine returns without sending the error
DatabaseError_NotSent(d) == [d EXCEPT !.failed = "database", !.pc = "return"]

\* err != nil after the database call: e <- handleAwsErr(err) comes next
DatabaseError(d) == [d EXCEPT !.failed = "database", !.pc = "sendErr"]

\* the loop over out.Items tests the limit after a send, in all stream
\* functions but scan.ExecuteWith
ChecksLimitInLoop(op) == op # "scan.ExecuteWith"

\* faulty variant: the next request starts where the last one started
NextPage_SameKey(d) == [d EXCEPT !.pc = "Execute"]

\* d.ExclusiveStartKey = out.LastEvaluatedKey; goto Execute
NextPage(d) ==
    [d EXCEPT !.ExclusiveStartKey = d.out.LastEvaluatedKey, !.pc = "Execute"]

\* faulty variant: the received item replaces the items received before
AppendItem_Replace(items, item) == <<item>>

\* items = append(items, item), in the consumer
AppendItem(items, item) == Append(items, item)

\* the stream function is called: it makes the channels and starts the goroutine
StreamCall ==
    /\ prod = None
    /\ \E op \in QueryStreams \cup ScanStreams, limit \in Limits, pageSize \in PageSizes, consumer \in Consumers :
          /\ prod' = [kind |-> "goroutine", op |-> op, Limit |-> limit,
                      pageSize |-> pageSize, ExclusiveStartKey |-> NilInt,
                      pc |-> "Execute", count |-> 0, failed |-> "no", i |-> 0,
                      out |-> [Items |-> <<>>, LastEvaluatedKey |-> NilInt]]
          /\ cons' = [kind |-> consumer, state |-> "receiving", items |-> <<>>,
                      err |-> "nil", closedSeen |-> FALSE]
    /\ chans' = [c |-> "open", e |-> "open"]
    /\ UNCHANGED <<db, builderVars, placeholderVars, batchVars, tableVars>>

\* label Execute: the limit test, then the database call and its error test
Execute ==
    /\ prod # None
    /\ prod.pc = "Execute"
    /\ IF LimitReached(prod)
       THEN prod' = [prod EXCEPT !.pc = "return"]
       ELSE \/ \E page \in Pages(StreamBuild(prod), db.M) :
                  prod' = [prod EXCEPT !.out = page, !.i = 1, !.pc = "range"]
            \/ prod' = DatabaseError(prod)
    /\ UNCHANGED <<db, chans, cons, builderVars, placeholderVars, batchVars, tableVars>>

\* the next item of the page is unmarshalled and counted, or fails to unmarshal
NextItem ==
    /\ prod # None
    /\ prod.pc = "range"
    /\ prod.i <= Len(prod.out.Items)
    /\ \/ prod' = [prod EXCEPT !.count = @ + 1, !.pc = "send"]
       \/ prod' = [prod EXCEPT !.failed = "unmarshal", !.pc = "sendErr"]
    /\ UNCHANGED <<db, chans, cons, builderVars, placeholderVars, batchVars, tableVars>>

\* after the last item of the page: the next page, or return
EndOfPage ==
    /\ prod # None
    /\ prod.pc = "range"
    /\ prod.i > Len(prod.out.Items)
    /\ prod' = IF prod.out.LastEvaluatedKey.set
               THEN NextPage(prod)
               ELSE [prod EXCEPT !.pc = "return"]
    /\ UNCHANGED <<db, chans, cons, builderVars, placeholderVars, batchVars, tableVars>>

\* c <- result, received by the consumer; then the limit test of the loop
SendItem ==
    /\ prod # None
    /\ prod.pc = "send"
    /\ cons.state = "receiving"
    /\ cons' = [cons EXCEPT !.items = AppendItem(@, prod.out.Items[prod.i])]
    /\ prod' = IF ChecksLimitInLoop(prod.op) /\ LimitReached(prod)
               THEN [prod EXCEPT !.pc = "return"]
               ELSE [prod EXCEPT !.i = @ + 1, !.pc = "range"]
    /\ UNCHANGED <<db, chans, builderVars, placeholderVars, batchVars, tableVars>>

\* e <- handleAwsErr(err), received by a consumer that selects on the error
\* channel; then return
SendErr ==
    /\ prod # None
    /\ prod.pc = "sendErr"
    /\ cons.state = "receiving"
    /\ cons.kind = "select"
    /\ cons' = [cons EXCEPT !.err = "error", !.state = "done"]
    /\ prod' = [prod EXCEPT !.pc = "return"]
    /\ UNCHANGED <<db, chans, builderVars, placeholderVars, batchVars, tableVars>>

\* the deferred calls run last registered first: the error channel is closed
CloseErrChannel ==
    /\ prod # None
    /\ prod.pc = "return"
    /\ chans' = [chans EXCEPT !.e = "closed"]
    /\ prod' = [prod EXCEPT !.pc = "closeItems"]
    /\ UNCHANGED <<db, cons, builderVars, placeholderVars, batchVars, tableVars>>

\* then the item channel is closed
CloseItemChannel ==
    /\ prod # None
    /\ prod.pc = "closeItems"
    /\ chans' = [chans EXCEPT !.c = "closed"]
    /\ prod' = [prod EXCEPT !.pc = "done"]
    /\ UNCHANGED <<db, cons, builderVars, placeholderVars, batchVars, tableVars>>

\* the consumer finds the item channel closed
ReceiveClosedItems ==
    /\ cons # None
    /\ cons.state = "receiving"
    /\ chans.c = "closed"
    /\ cons' = [cons EXCEPT !.state = "done", !.closedSeen = TRUE]
    /\ UNCHANGED <<db, prod, chans, builderVars, placeholderVars, batchVars, tableVars>>

\* err = <-e on the closed error channel: the zero value
ReceiveClosedErr ==
    /\ cons # None
    /\ cons.state = "receiving"
    /\ cons.kind = "select"
    /\ chans.e = "closed"
    /\ cons' = [cons EXCEPT !.err = "nil", !.state = "done"]
    /\ UNCHANGED <<db, prod, chans, builderVars, placeholderVars, batchVars, tableVars>>

InitStream ==
    /\ db \in {[kind |-> "table", M |-> m] : m \in 0..MaxItems}
    /\ prod = None
    /\ chans = None
    /\ cons = None
    /\ NoBuilders
    /\ NoPlaceholders
    /\ NoTables
    /\ NoBatch

NextStream ==
    \/ StreamCall
    \/ Execute
    \/ NextItem
    \/ EndOfPage
    \/ SendItem
    \/ SendErr
    \/ CloseErrChannel
    \/ CloseItemChannel
    \/ ReceiveClosedItems
    \/ ReceiveClosedErr

SpecStream == InitStream /\ [][NextStream]_vars

\* the goroutine and the consumer take a step whenever one is possible
SpecStreamFair == SpecStream /\ WF_vars(NextStream)

Min(a, b) == IF a < b THEN a ELSE b

QueryStream == prod # None /\ prod.op \in QueryStreams

(***************************************************************************)
(* C14: for a Query with SetLimit(n) over M matching items, the number of  *)
(* items delivered by StreamWith / StreamWithChannel / ExecuteWith is      *)
(* exactly min(n, M), for every page size set with SetPageSize (also page  *)
(* sizes smaller than n and pages whose end does not coincide with the     *)
(* limit), and no item is delivered after the n-th.                        *)
(***************************************************************************)
C14_QueryLimit ==
    (QueryStream /\ prod.Limit.set) =>
        /\ Len(cons.items) <= prod.Limit.v
        /\ cons.items = [k \in 1..Len(cons.items) |-> k]
        /\ (chans.c = "closed" /\ prod.failed = "no") =>
              Len(cons.items) = Min(prod.Limit.v, db.M)

\* a finished query with limit 2 over 3 items, whose last page held 3 items
C14_Witness ==
    /\ QueryStream
    /\ prod.Limit = IntPtr(2)
    /\ prod.pageSize = IntPtr(3)
    /\ db.M = 3
    /\ Len(prod.out.Items) = 3
    /\ prod.failed = "no"
    /\ chans.c = "closed"
    /\ cons.state = "done"
    /\ Len(cons.items) = 2

(***************************************************************************)
(* C15: for a Scan with SetLimit(n) over M available items, the number of  *)
(* items delivered on the item channel by scan.ExecuteWith is exactly      *)
(* min(n, M); it never exceeds n, whatever sizes the pages returned by the *)
(* database have and whether or not SetPageSize was called.                *)
(***************************************************************************)
C15_ScanLimit ==
    (prod # None /\ prod.op = "scan.ExecuteWith" /\ prod.Limit.set) =>
        /\ Len(cons.items) <= prod.Limit.v
        /\ (chans.c = "closed" /\ prod.failed = "no") =>
              Len(cons.items) = Min(prod.Limit.v, db.M)

(***************************************************************************)
(* C16: in every execution of StreamWithChannel the item channel is        *)
(* eventually closed: after the last item of the last page, after the      *)
(* limit is reached, and after a database or unmarshalling error; so a     *)
(* consumer that only ranges over the item channel and never receives from *)
(* the error channel terminates.                                           *)
(***************************************************************************)
C16_ItemChannelClosed ==
    (/\ prod # None
     /\ prod.op \in {"query.StreamWithChannel", "scan.StreamWithChannel"}
     /\ cons.kind = "range")
        ~> (chans # None /\ chans.c = "closed" /\ cons.state = "done")

(***************************************************************************)
(* C17: when a database call made by the query stream producer returns an  *)
(* error, the producer sends that error on the error channel, sends no     *)
(* item afterwards, and only then closes both channels; a consumer that    *)
(* selects on the item channel and the error channel always ends with a    *)
(* non-nil error and never sees the item channel closed first.             *)
(***************************************************************************)
DatabaseFailed == QueryStream /\ prod.failed = "database"

C17_ErrorDelivered ==
    /\ [](DatabaseFailed =>
            /\ (chans.e = "closed" \/ chans.c = "closed") => cons.err = "error"
            /\ (cons.kind = "select" /\ cons.state = "done") =>
                  (cons.err = "error" /\ ~cons.closedSeen))
    /\ [][DatabaseFailed => cons'.items = cons.items]_vars

\* a select consumer that received two items and then the error of the
\* database call for the next page, after which both channels were closed
C17_Witness ==
    /\ DatabaseFailed
    /\ cons.kind = "select"
    /\ cons.state = "done"
    /\ cons.err = "error"
    /\ Len(cons.items) = 2
    /\ chans.c = "closed"

(***************************************************************************)
(* BatchGetItem.  The keys are 1, 2, ...; the table holds an item under    *)
(* some of them, and the item under key k is k.                            *)
(***************************************************************************)
\* largest number of keys passed to BatchGetItem
MaxKeys == 4
\* largest number of successive responses that process no key
MaxRetries == 2

\* the closure delayed of BatchGetItem: the keys of all items go under the
\* table's name into one map, and every map becomes one request
batchGet_delayed(d) == [d EXCEPT !.input = Append(@, [RequestItems |-> d.items])]

\* table.BatchGetItem(items...)
BatchGetItem(items) ==
    [kind |-> "batchGet", items |-> items, input |-> <<>>, pc |-> "new", b |-> 0,
     retry |-> 0, nextItemCalls |-> 0, responded |-> 0, users |-> <<>>, err |-> "nil"]

\* batchGet.Build: the delayed function is run
batchGet_Build(d) == batchGet_delayed(d)

\* the responses dynamo.BatchGetItem can give without error: the items found
\* under a first part of the keys, the other keys unprocessed (a request
\* without keys is answered with an error only)
BatchGetResponses(keys, table, retry) ==
    IF Len(keys) = 0 THEN {} ELSE
    {[Responses |-> SelectSeq(SubSeq(keys, 1, k), LAMBDA x : x \in table),
      UnprocessedKeys |-> SubSeq(keys, k + 1, Len(keys))]
        : k \in (IF retry < MaxRetries THEN 0 ELSE 1)..Len(keys)}

\* faulty variant: the same request is sent again
RetryRequest_Same(bgi, resp) == bgi

\* bg.RequestItems = out.UnprocessedKeys
RetryRequest(bgi, resp) == [bgi EXCEPT !.RequestItems = resp.UnprocessedKeys]

\* the rest of the loop body after a response whose items all unmarshalled
AfterResponse(d, resp) ==
    LET e == [d EXCEPT !.nextItemCalls = @ + Len(resp.Responses),
                       !.responded = @ + Len(resp.Responses),
                       !.users = @ \o resp.Responses]
    IN IF Len(resp.UnprocessedKeys) > 0
       THEN [e EXCEPT !.input[d.b] = RetryRequest(@, resp), !.retry = @ + 1]
       ELSE IF d.b < Len(d.input)
            THEN [e EXCEPT !.b = @ + 1, !.retry = 0]
            ELSE [e EXCEPT !.pc = "done"]

BatchGetItemCall ==
    /\ bg = None
    /\ \E n \in 0..MaxKeys : bg' = BatchGetItem([i \in 1..n |-> i])
    /\ UNCHANGED <<bw, db, prod, chans, cons, builderVars, placeholderVars, tableVars>>

\* batchGet.ExecuteWith up to its loop: Build, and the first request
BatchGetExecuteWith ==
    /\ bg # None
    /\ bg.pc = "new"
    /\ bg' = [batchGet_Build(bg) EXCEPT !.pc = "Execute", !.b = 1]
    /\ UNCHANGED <<bw, db, prod, chans, cons, builderVars, placeholderVars, tableVars>>

\* label Execute: one dynamo.BatchGetItem call, nextItem and UnmarshalMap for
\* the items of the response (fail: the item that does not unmarshal)
BatchGetRound ==
    /\ bg # None
    /\ bg.pc = "Execute"
    /\ \/ bg' = [bg EXCEPT !.pc = "done", !.err = "error"]
       \/ \E resp \in BatchGetResponses(bg.input[bg.b].RequestItems, db.keys, bg.retry) :
             \/ bg' = AfterResponse(bg, resp)
             \/ \E fail \in 1..Len(resp.Responses) :
                   bg' = [bg EXCEPT !.nextItemCalls = @ + fail,
                                    !.responded = @ + Len(resp.Responses),
                                    !.users = @ \o SubSeq(resp.Responses, 1, fail - 1),
                                    !.pc = "done", !.err = "error"]
    /\ UNCHANGED <<bw, db, prod, chans, cons, builderVars, placeholderVars, tableVars>>

InitBatchGet ==
    /\ db \in {[kind |-> "table", keys |-> K] : K \in SUBSET (1..MaxKeys)}
    /\ bg = None
    /\ bw = None
    /\ prod = None
    /\ chans = None
    /\ cons = None
    /\ NoBuilders
    /\ NoPlaceholders
    /\ NoTables

NextBatchGet == BatchGetItemCall \/ BatchGetExecuteWith \/ BatchGetRound

\* the caller's calls and the loop of ExecuteWith go on while they can
SpecBatchGet == InitBatchGet /\ [][NextBatchGet]_vars /\ WF_vars(NextBatchGet)

(***************************************************************************)
(* C18: batchGet.ExecuteWith re-sends the request with RequestItems        *)
(* replaced by the UnprocessedKeys of the previous response until a        *)
(* response has no unprocessed keys, calls nextItem exactly once for every *)
(* item of every response, and, if the database eventually processes every *)
(* key, terminates with a nil error after delivering exactly one item per  *)
(* requested existing key.                                                 *)
(***************************************************************************)
SeqRange(q0) == {q0[i] : i \in 1..Len(q0)}

C18_BatchGetRetry ==
    /\ [](bg # None =>
            /\ bg.nextItemCalls <= bg.responded
            /\ bg.err = "nil" =>
                  /\ bg.nextItemCalls = bg.responded
                  /\ Len(bg.users) = bg.nextItemCalls
                  /\ \A i, j \in 1..Len(bg.users) : i # j => bg.users[i] # bg.users[j]
            /\ (bg.pc = "Execute" /\ bg.err = "nil") =>
                  \* the keys still to be requested are those not yet processed
                  SeqRange(bg.input[bg.b].RequestItems) \cap SeqRange(bg.users) = {}
            /\ (bg.pc = "done" /\ bg.err = "nil") =>
                  SeqRange(bg.users) = SeqRange(bg.items) \cap db.keys)
    /\ <>(bg # None /\ bg.pc = "done")

\* a call for three keys, two of them existing, that ended without error
\* after a response that left keys unprocessed
C18_Witness ==
    /\ bg # None
    /\ bg.pc = "done"
    /\ bg.err = "nil"
    /\ Len(bg.items) = 3
    /\ Len(bg.users) = 2
    /\ Len(bg.input[1].RequestItems) < 3

(***************************************************************************)
(* BatchWriteItem.  The items and keys passed by the caller are 1, 2, ...  *)
(***************************************************************************)
\* largest number of items and keys passed to one batchPut
MaxPutItems == 26
\* largest number of PutItems and DeleteItems calls on one batchPut
MaxWrites == 2
\* largest number of write requests one response returns as unprocessed
MaxUnprocessed == 1

\* nil, or a pointer to a PutRequest / DeleteRequest holding the item or key
WriteRequest(putOnly, item) ==
    IF putOnly THEN [PutRequest |-> IntPtr(item), DeleteRequest |-> NilInt]
    ELSE [PutRequest |-> NilInt, DeleteRequest |-> IntPtr(item)]

\* table.BatchWriteItem()
BatchWriteItem ==
    [kind |-> "batchPut", batches |-> <<>>, delayedFunctions |-> <<>>, pc |-> "new",
     b |-> 0, sent |-> 0, unprocessed |-> 0, unprocessedItemCalls |-> 0,
     result |-> "none"]

\* writeItems appends the closure delayed, which holds putOnly and items
writeItems(d, putOnly, items) ==
    [d EXCEPT !.delayedFunctions = Append(@, [putOnly |-> putOnly, items |-> items])]

PutItems(d, items) == writeItems(d, TRUE, items)
DeleteItems(d, keys) == writeItems(d, FALSE, keys)

RECURSIVE writeItemsLoop(_, _, _, _, _)
\* for i := 1; i <= batchCount; i++: the inner loop moves up to 25 items from
\* the closure's items into puts, and the batch is appended
writeItemsLoop(putOnly, items, i, batchCount, batches) ==
    IF i > batchCount THEN [items |-> items, batches |-> batches]
    ELSE LET n == Min(25, Len(items))
             puts == [j \in 1..n |-> WriteRequest(putOnly, items[j])]
         IN writeItemsLoop(putOnly, SubSeq(items, n + 1, Len(items)), i + 1, batchCount,
                           Append(batches, puts))

\* the closure delayed of writeItems, with batchCount := len(items)/25 + 1
writeItems_delayed(f) ==
    writeItemsLoop(f.putOnly, f.items, 1, (Len(f.items) \div 25) + 1, <<>>)

RECURSIVE batchPut_BuildLoop(_, _)
\* for _, function := range d.delayedFunctions: each closure appends its
\* batches to d.batches and is left with the items it did not move
batchPut_BuildLoop(d, j) ==
    IF j > Len(d.delayedFunctions) THEN d
    ELSE LET r == writeItems_delayed(d.delayedFunctions[j])
         IN batchPut_BuildLoop([d EXCEPT !.batches = @ \o r.batches,
                                         !.delayedFunctions[j].items = r.items], j + 1)

batchPut_Build(d) == batchPut_BuildLoop(d, 1)

\* the outcomes of dynamo.BatchWriteItem without error: the last requests of
\* the batch come back unprocessed (a batch without requests is answered
\* with an error only)
BatchWriteResponses(batch) ==
    IF Len(batch) = 0 THEN {}
    ELSE {[UnprocessedItems |-> SubSeq(batch, Len(batch) - k + 1, Len(batch))]
              : k \in 0..Min(MaxUnprocessed, Len(batch))}

\* the number of items and keys passed to d so far
Passed(d) == SeqSum([j \in 1..Len(d.delayedFunctions) |-> Len(d.delayedFunctions[j].items)])

BatchWriteItemCall ==
    /\ bw = None
    /\ bw' = BatchWriteItem
    /\ UNCHANGED <<bg, streamVars, builderVars, placeholderVars, tableVars>>

PutItemsCall ==
    /\ bw # None
    /\ bw.pc = "new"
    /\ Len(bw.delayedFunctions) < MaxWrites
    /\ \E n \in 0..(MaxPutItems - Passed(bw)) :
          bw' = PutItems(bw, [i \in 1..n |-> Passed(bw) + i])
    /\ UNCHANGED <<bg, streamVars, builderVars, placeholderVars, tableVars>>

DeleteItemsCall ==
    /\ bw # None
    /\ bw.pc = "new"
    /\ Len(bw.delayedFunctions) < MaxWrites
    /\ \E n \in 0..(MaxPutItems - Passed(bw)) :
          bw' = DeleteItems(bw, [i \in 1..n |-> Passed(bw) + i])
    /\ UNCHANGED <<bg, streamVars, builderVars, placeholderVars, tableVars>>

\* input, err := d.Build() called by the caller
BatchPutBuildCall ==
    /\ bw # None
    /\ bw.pc = "new"
    /\ bw' = [batchPut_Build(bw) EXCEPT !.pc = "built"]
    /\ UNCHANGED <<bg, streamVars, builderVars, placeholderVars, tableVars>>

\* batchPut.ExecuteWith up to its loop over the batches
BatchPutExecuteWith ==
    /\ bw # None
    /\ bw.pc = "new"
    /\ LET d == batchPut_Build(bw)
       IN bw' = IF Len(d.batches) = 0 THEN [d EXCEPT !.pc = "done", !.result = "nil"]
                ELSE [d EXCEPT !.pc = "Execute", !.b = 1]
    /\ UNCHANGED <<bg, streamVars, builderVars, placeholderVars, tableVars>>

\* one round of the loop: dynamo.BatchWriteItem(&batch), then for every
\* unprocessed request UnmarshalMap(item.PutRequest.Item, unprocessedItem())
BatchPutRound ==
    /\ bw # None
    /\ bw.pc = "Execute"
    /\ \/ bw' = [bw EXCEPT !.sent = @ + 1, !.pc = "done", !.result = "error"]
       \/ \E resp \in BatchWriteResponses(bw.batches[bw.b]) :
             LET items == resp.UnprocessedItems
                 d == [bw EXCEPT !.sent = @ + 1, !.unprocessed = @ + Len(items)]
                 \* the first unprocessed request that is not a put, if any
                 nils == {i \in 1..Len(items) : ~items[i].PutRequest.set}
                 firstNil == CHOOSE i \in nils : \A j \in nils : i <= j
             IN IF nils # {}
                \* item.PutRequest is nil: nil pointer dereference
                THEN bw' = [d EXCEPT !.unprocessedItemCalls = @ + firstNil - 1,
                                     !.pc = "done", !.result = "panic"]
                ELSE \/ bw' = [d EXCEPT !.unprocessedItemCalls = @ + Len(items),
                                        !.b = @ + 1,
                                        !.pc = IF bw.b < Len(bw.batches)
                                               THEN "Execute" ELSE "done",
                                        !.result = IF bw.b < Len(bw.batches)
                                                   THEN "none" ELSE "nil"]
                     \/ \E fail \in 1..Len(items) :
                           bw' = [d EXCEPT !.unprocessedItemCalls = @ + fail,
                                           !.pc = "done", !.result = "unmarshal error"]
    /\ UNCHANGED <<bg, streamVars, builderVars, placeholderVars, tableVars>>

InitBatchPut ==
    /\ bw = None
    /\ bg = None
    /\ NoStream
    /\ NoBuilders
    /\ NoPlaceholders
    /\ NoTables

NextBatchPut ==
    \/ BatchWriteItemCall
    \/ PutItemsCall
    \/ DeleteItemsCall
    \/ BatchPutBuildCall
    \/ BatchPutExecuteWith
    \/ BatchPutRound

SpecBatchPut == InitBatchPut /\ [][NextBatchPut]_vars

(***************************************************************************)
(* C19: for every number of items passed to PutItems / DeleteItems (also 0 *)
(* and exact multiples of 25), batchPut.Build splits them, in order, into  *)
(* consecutive batches that each hold at least 1 and at most 25 write      *)
(* requests, and every item appears in exactly one batch.                  *)
(***************************************************************************)
\* the write requests of the items passed in the j-th call, in order
PassedRequests(d) ==
    ConcatAll([j \in 1..Len(d.delayedFunctions) |->
        [i \in 1..Len(d.delayedFunctions[j].items) |->
            WriteRequest(d.delayedFunctions[j].putOnly, d.delayedFunctions[j].items[i])]])

C19_BatchSizes ==
    [][BatchPutBuildCall =>
          /\ \A b \in 1..Len(bw'.batches) :
                Len(bw'.batches[b]) >= 1 /\ Len(bw'.batches[b]) <= 25
          /\ ConcatAll(bw'.batches) = PassedRequests(bw)]_vars

(***************************************************************************)
(* C20: batchPut.ExecuteWith calls unprocessedItem exactly once for each   *)
(* write request the database returns as unprocessed, over all batches and *)
(* for put requests as well as delete requests, and returns nil when every *)
(* database call succeeded; it stops at the first failing database call    *)
(* and returns that error without sending later batches.                   *)
(***************************************************************************)
C20_UnprocessedItems ==
    (bw # None /\ bw.pc = "done") =>
        /\ bw.result \in {"nil", "error", "unmarshal error"}
        /\ bw.result = "nil" =>
              /\ bw.unprocessedItemCalls = bw.unprocessed
              /\ bw.sent = Len(bw.batches)
        /\ bw.result = "error" => bw.unprocessedItemCalls = bw.unprocessed

(***************************************************************************)
(* GetItem: a table of users keyed by email (partition key) and password   *)
(* (range key), the get builder, and ExecuteWith with the item pointer the *)
(* caller passes.                                                          *)
(***************************************************************************)
\* number of partition key values of the users table
MaxGetKeys == 2

Passwords == {"p", "q"}

NilBool == [set |-> FALSE, v |-> FALSE]
BoolPtr(c) == [set |-> TRUE, v |-> c]

\* a nil map of attributes, and the attributes of one stored user
NilItem == [set |-> FALSE, attrs |-> <<>>]
UserItem(email, password) ==
    [set |-> TRUE, attrs |-> [Email |-> email, Password |-> password]]

\* the zero User{} the caller passes a pointer to
ZeroUser == [Email |-> 0, Password |-> ""]

\* table.GetItem(key): the range key goes into the key only when the table
\* has one
GetItem(table, key) ==
    [kind |-> "get",
     Key |-> IF table.RangeKeyIsEmpty
                THEN [PartitionKey |-> key.PartitionKey, RangeKey |-> ""]
                ELSE [PartitionKey |-> key.PartitionKey, RangeKey |-> key.RangeKey],
     ConsistentRead |-> NilBool,
     pc |-> "new",
     resp |-> None,
     item |-> ZeroUser,
     r |-> [set |-> FALSE, ptr |-> "nil"],
     err |-> "nil"]

get_SetConsistentRead(d, c) == [d EXCEPT !.ConsistentRead = BoolPtr(c)]

\* the errors a dynamo call returns, and handleAwsErr on them
DynamoErrors == {"awserr.Error", "error"}

handleAwsErr(err) ==
    IF err = "awserr.Error" THEN "Error: code, message" ELSE err

\* the item the table stores under the key of the request, NilItem if none
StoredItem(table, key) ==
    IF /\ table.items[key.PartitionKey] # ""
       /\ table.RangeKeyIsEmpty \/ table.items[key.PartitionKey] = key.RangeKey
        THEN UserItem(key.PartitionKey, table.items[key.PartitionKey])
        ELSE NilItem

\* dynamo.GetItem: an error, or the stored item; when there is none the
\* output has a nil map or an empty one
GetItemOutputs(table, key) ==
    {[err |-> e, Item |-> NilItem] : e \in DynamoErrors}
        \cup {[err |-> "nil", Item |-> StoredItem(table, key)]}
        \cup (IF StoredItem(table, key) = NilItem
                 THEN {[err |-> "nil", Item |-> [set |-> TRUE, attrs |-> <<>>]]}
                 ELSE {})

\* dynamodbattribute.UnmarshalMap(out.Item, r): the attributes become the
\* fields of the struct r points to, or an error is returned
UnmarshalMap(attrs, user) ==
    [Email |-> attrs.Email, Password |-> attrs.Password]

\* get.ExecuteWith with r assigned before the outcome is known
get_ExecuteWith_AssignFirst(d, resp, unmarshalErr) ==
    IF resp.err # "nil"
        THEN [d EXCEPT !.pc = "done", !.r = [set |-> TRUE, ptr |-> "item"],
                       !.err = handleAwsErr(resp.err)]
        ELSE [d EXCEPT !.pc = "done", !.r = [set |-> TRUE, ptr |-> "item"],
                       !.err = "nil"]

\* get.ExecuteWith(dynamo, item) after dynamo.GetItem returned resp;
\* unmarshalErr is the error of UnmarshalMap, "nil" if it succeeds
get_ExecuteWith(d, resp, unmarshalErr) ==
    IF resp.err # "nil"
        THEN [d EXCEPT !.pc = "done", !.err = handleAwsErr(resp.err)]
        ELSE IF resp.Item.set /\ resp.Item.attrs # <<>>
            THEN IF unmarshalErr # "nil"
                THEN [d EXCEPT !.pc = "done",
                               !.r = [set |-> TRUE, ptr |-> "item"],
                               !.err = handleAwsErr(unmarshalErr)]
                ELSE [d EXCEPT !.pc = "done",
                               !.r = [set |-> TRUE, ptr |-> "item"],
                               !.item = UnmarshalMap(resp.Item.attrs, d.item),
                               !.err = "nil"]
            ELSE [d EXCEPT !.pc = "done", !.err = "nil"]

GetItemCall ==
    /\ gi = None
    /\ \E k \in 1..MaxGetKeys, p \in Passwords :
          gi' = GetItem(db, [PartitionKey |-> k, RangeKey |-> p])
    /\ UNCHANGED <<ct, builderVars, placeholderVars, streamVars, batchVars>>

GetSetConsistentReadCall ==
    /\ gi # None
    /\ gi.pc = "new"
    /\ ~gi.ConsistentRead.set
    /\ \E c \in BOOLEAN : gi' = get_SetConsistentRead(gi, c)
    /\ UNCHANGED <<ct, builderVars, placeholderVars, streamVars, batchVars>>

GetExecuteWith ==
    /\ gi # None
    /\ gi.pc = "new"
    /\ \E resp \in GetItemOutputs(db, gi.Key), unmarshalErr \in {"nil", "error"} :
          gi' = [get_ExecuteWith(gi, resp, unmarshalErr) EXCEPT !.resp = resp]
    /\ UNCHANGED <<ct, builderVars, placeholderVars, streamVars, batchVars>>

\* the users table: for each email the password of the stored user, "" when
\* no user is stored; with or without a range key
InitGet ==
    /\ db \in {[kind |-> "table", RangeKeyIsEmpty |-> e, items |-> f] :
                  e \in BOOLEAN, f \in [1..MaxGetKeys -> Passwords \cup {""}]}
    /\ prod = None
    /\ chans = None
    /\ cons = None
    /\ gi = None
    /\ ct = None
    /\ NoBuilders
    /\ NoPlaceholders
    /\ NoBatch

NextGet == GetItemCall \/ GetSetConsistentReadCall \/ GetExecuteWith

SpecGet == InitGet /\ [][NextGet]_vars

(***************************************************************************)
(* C21: get.ExecuteWith returns (nil, nil) when the database call succeeds *)
(* with no item for the key, returns the passed item pointer hydrated with *)
(* the stored attributes when an item exists (and UnmarshalMap succeeds),  *)
(* and returns a non-nil error with a nil result when the database call    *)
(* fails.                                                                  *)
(***************************************************************************)
C21_GetResult ==
    (gi # None /\ gi.pc = "done") =>
        /\ gi.resp.err # "nil" => (~gi.r.set /\ gi.err # "nil")
        /\ (gi.resp.err = "nil" /\ StoredItem(db, gi.Key) = NilItem) =>
              (~gi.r.set /\ gi.err = "nil")
        /\ (gi.resp.err = "nil" /\ StoredItem(db, gi.Key) # NilItem) =>
              /\ gi.r.set
              /\ gi.r.ptr = "item"
              /\ gi.err = "nil" => gi.item = StoredItem(db, gi.Key).attrs
        /\ ~gi.r.set => gi.item = ZeroUser

C21_Witness ==
    /\ gi # None
    /\ gi.pc = "done"
    /\ gi.r.set
    /\ gi.err = "nil"
    /\ gi.item = [Email |-> 2, Password |-> "q"]
    /\ ~db.RangeKeyIsEmpty

(***************************************************************************)
(* CreateTable: a DynamoTable with its secondary indexes, and the          *)
(* createTable request made from it.                                       *)
(***************************************************************************)
\* largest number of global secondary indexes of one createTable
MaxIndexes == 2

EmptyField == [name |-> "", _type |-> "Null", empty |-> TRUE]
StringField(name) == [name |-> name, _type |-> "S", empty |-> FALSE]
NumericField(name) == [name |-> name, _type |-> "N", empty |-> FALSE]

KeySchemaElement(field, keyType) ==
    [AttributeName |-> field.name, KeyType |-> keyType]
AttributeDefinition(field) ==
    [AttributeName |-> field.name, AttributeType |-> field._type]

\* the projection of an index: its type, the non key attribute names, and
\* the attribute definitions added for them
Projection(index) ==
    IF index.ProjectionType = ""
        THEN [pt |-> "ALL", nka |-> <<>>, defs |-> <<>>]
        ELSE IF index.ProjectionType = "INCLUDE"
            THEN [pt |-> index.ProjectionType,
                  nka |-> [i \in 1..Len(index.NonKeyAttributes) |->
                              index.NonKeyAttributes[i].name],
                  defs |-> [i \in 1..Len(index.NonKeyAttributes) |->
                              AttributeDefinition(index.NonKeyAttributes[i])]]
            ELSE [pt |-> index.ProjectionType, nka |-> <<>>, defs |-> <<>>]

WithLocalSecondaryIndex(d, lsi) ==
    [d EXCEPT
        !.AttributeDefinitions =
            @ \o Projection(lsi).defs
              \o <<AttributeDefinition(lsi.PartitionKey), AttributeDefinition(lsi.SortKey)>>,
        !.LocalSecondaryIndexes = Append(@,
            [IndexName |-> lsi.Name,
             KeySchema |-> <<KeySchemaElement(lsi.PartitionKey, "HASH"),
                             KeySchemaElement(lsi.SortKey, "RANGE")>>,
             Projection |-> [ProjectionType |-> Projection(lsi).pt,
                             NonKeyAttributes |-> Projection(lsi).nka]])]

WithGlobalSecondaryIndex(d, gsi) ==
    [d EXCEPT
        !.AttributeDefinitions =
            @ \o Projection(gsi).defs
              \o <<AttributeDefinition(gsi.PartitionKey), AttributeDefinition(gsi.RangeKey)>>,
        !.GlobalSecondaryIndexes = Append(@,
            [IndexName |-> gsi.Name,
             KeySchema |-> <<KeySchemaElement(gsi.PartitionKey, "HASH"),
                             KeySchemaElement(gsi.RangeKey, "RANGE")>>,
             Projection |-> [ProjectionType |-> Projection(gsi).pt,
                             NonKeyAttributes |-> Projection(gsi).nka],
             ProvisionedThroughput |->
                 [ReadCapacityUnits |-> IF gsi.ReadUnits # 0 THEN gsi.ReadUnits ELSE 10,
                  WriteCapacityUnits |-> IF gsi.WriteUnits # 0 THEN gsi.WriteUnits ELSE 10]])]

\* the loops of CreateTable over the table's indexes, from the i-th on
RECURSIVE CreateTableGlobalLoop(_, _, _)
CreateTableGlobalLoop(c, gsis, i) ==
    IF i > Len(gsis) THEN c
    ELSE CreateTableGlobalLoop(WithGlobalSecondaryIndex(c, gsis[i]), gsis, i + 1)

RECURSIVE CreateTableLocalLoop(_, _, _)
CreateTableLocalLoop(c, lsis, i) ==
    IF i > Len(lsis) THEN c
    ELSE CreateTableLocalLoop(WithLocalSecondaryIndex(c, lsis[i]), lsis, i + 1)

CreateTable(table) ==
    LET hasRange == ~table.RangeKey.empty
        c == [kind |-> "createTable",
              TableName |-> table.Name,
              KeySchema |->
                  <<KeySchemaElement(table.PartitionKey, "HASH")>>
                    \o (IF hasRange THEN <<KeySchemaElement(table.RangeKey, "RANGE")>>
                                    ELSE <<>>),
              ProvisionedThroughput |->
                  [ReadCapacityUnits |-> 100, WriteCapacityUnits |-> 100],
              AttributeDefinitions |->
                  <<AttributeDefinition(table.PartitionKey)>>
                    \o (IF hasRange THEN <<AttributeDefinition(table.RangeKey)>>
                                    ELSE <<>>),
              GlobalSecondaryIndexes |-> <<>>,
              LocalSecondaryIndexes |-> <<>>]
    IN  CreateTableLocalLoop(
            CreateTableGlobalLoop(c, table.GlobalSecondaryIndexes, 1),
            table.LocalSecondaryIndexes, 1)

\* the indexes the tables are declared with
GlobalIndexes ==
    {[Name |-> "idx", PartitionKey |-> StringField("name"), RangeKey |-> r,
      ProjectionType |-> pt, NonKeyAttributes |-> <<NumericField("age")>>,
      ReadUnits |-> ru, WriteUnits |-> 0] :
        r \in {EmptyField, StringField("last")},
        pt \in {"", "INCLUDE", "KEYS_ONLY"},
        ru \in {0, 5}}

LocalIndexes ==
    {[Name |-> "lidx", PartitionKey |-> StringField("email"),
      SortKey |-> NumericField("visits"),
      ProjectionType |-> pt, NonKeyAttributes |-> <<NumericField("age")>>] :
        pt \in {"", "INCLUDE"}}

DynamoTables ==
    {[Name |-> "users", PartitionKey |-> StringField("email"), RangeKey |-> r,
      GlobalSecondaryIndexes |-> g, LocalSecondaryIndexes |-> l] :
        r \in {EmptyField, StringField("password")},
        g \in ListsUpTo(GlobalIndexes, MaxIndexes - 1),
        l \in ListsUpTo(LocalIndexes, 1)}

\* ct.gsis are the GlobalSecondaryIndex values the request's indexes were
\* made from, in order
CreateTableCall ==
    /\ ct # None
    /\ ct.d = None
    /\ ct' = [ct EXCEPT !.d = CreateTable(ct.table),
                        !.gsis = ct.table.GlobalSecondaryIndexes]
    /\ UNCHANGED <<gi, builderVars, placeholderVars, streamVars, batchVars>>

WithGlobalSecondaryIndexCall ==
    /\ ct # None
    /\ ct.d # None
    /\ Len(ct.gsis) < MaxIndexes
    /\ \E gsi \in GlobalIndexes :
          ct' = [ct EXCEPT !.d = WithGlobalSecondaryIndex(ct.d, gsi),
                           !.gsis = Append(@, gsi)]
    /\ UNCHANGED <<gi, builderVars, placeholderVars, streamVars, batchVars>>

WithLocalSecondaryIndexCall ==
    /\ ct # None
    /\ ct.d # None
    /\ Len(ct.d.LocalSecondaryIndexes) < 1
    /\ \E lsi \in LocalIndexes : ct' = [ct EXCEPT !.d = WithLocalSecondaryIndex(ct.d, lsi)]
    /\ UNCHANGED <<gi, builderVars, placeholderVars, streamVars, batchVars>>

InitCreateTable ==
    /\ ct \in {[kind |-> "DynamoTable", table |-> t, d |-> None, gsis |-> <<>>] :
                  t \in DynamoTables}
    /\ gi = None
    /\ NoBuilders
    /\ NoPlaceholders
    /\ NoStream
    /\ NoBatch

NextCreateTable ==
    CreateTableCall \/ WithGlobalSecondaryIndexCall \/ WithLocalSecondaryIndexCall

SpecCreateTable == InitCreateTable /\ [][NextCreateTable]_vars

(***************************************************************************)
(* C22: for a GlobalSecondaryIndex whose RangeKey is the empty field, the  *)
(* index built by CreateTable / WithGlobalSecondaryIndex has a key schema  *)
(* with only the HASH element, and no attribute definition is added for    *)
(* the empty field, the same way the table's own range key is skipped.     *)
(***************************************************************************)
C22_EmptyRangeKeyIndex ==
    (ct # None /\ ct.d # None) =>
        /\ \A i \in 1..Len(ct.gsis) :
              ct.gsis[i].RangeKey.empty =>
                  ct.d.GlobalSecondaryIndexes[i].KeySchema =
                      <<KeySchemaElement(ct.gsis[i].PartitionKey, "HASH")>>
        /\ \A i \in 1..Len(ct.d.AttributeDefinitions) :
              ct.d.AttributeDefinitions[i] # AttributeDefinition(EmptyField)

(***************************************************************************)
(* The batchGet that holds one BatchGetItemInput, with SetConsistentRead   *)
(* and build: the chain of the README.                                     *)
(***************************************************************************)
\* a nil RequestItems map, and the map with the table's KeysAndAttributes
NilRequestItems == [set |-> FALSE, Keys |-> <<>>, ConsistentRead |-> NilBool]

\* the attribute map of one key, as the delayed function makes it; key 0 is
\* a value MarshalMap returns an error for
KeyAttributes(rangeKeyIsEmpty, kv) ==
    IF rangeKeyIsEmpty THEN [PartitionKey |-> kv, RangeKey |-> 0]
                       ELSE [PartitionKey |-> kv, RangeKey |-> kv]

\* BatchGetItem(items...): the input is empty, the keys wait in the closure
BatchGetItemInput(rangeKeyIsEmpty, items) ==
    [kind |-> "batchGet",
     rangeKeyIsEmpty |-> rangeKeyIsEmpty,
     items |-> items,
     input |-> [RequestItems |-> NilRequestItems],
     calls |-> <<>>,
     built |-> None]

\* for _, ka := range d.input.RequestItems: a nil map has no entry
batchGet_SetConsistentRead(d, c) ==
    IF d.input.RequestItems.set
        THEN [d EXCEPT !.input.RequestItems.ConsistentRead = BoolPtr(c)]
        ELSE d

\* the closure of BatchGetItem: a new map k with new KeysAndAttributes is
\* filled and stored in the input, unless a key does not marshal
BatchGetItemInput_delayed(d) ==
    IF \E i \in 1..Len(d.items) : d.items[i] = 0
        THEN [d |-> d, err |-> "error"]
        ELSE [d |-> [d EXCEPT !.input.RequestItems =
                        [set |-> TRUE,
                         Keys |-> [i \in 1..Len(d.items) |->
                                      KeyAttributes(d.rangeKeyIsEmpty, d.items[i])],
                         ConsistentRead |-> NilBool]],
              err |-> "nil"]

\* build(): the delayed function, then the input is returned
batchGet_build(d) ==
    LET f == BatchGetItemInput_delayed(d)
    IN  IF f.err # "nil"
            THEN [f.d EXCEPT !.built = [input |-> None, err |-> f.err]]
            ELSE [f.d EXCEPT !.built = [input |-> f.d.input, err |-> "nil"]]

BatchGetItemInputCall ==
    /\ bg = None
    /\ \E n \in 0..MaxKeys, bad \in 0..1, e \in BOOLEAN :
          /\ bad <= n
          /\ bg' = BatchGetItemInput(e, [i \in 1..n |-> IF i = bad THEN 0 ELSE i])
    /\ UNCHANGED <<bw, streamVars, builderVars, placeholderVars, tableVars>>

BatchGetSetConsistentReadCall ==
    /\ bg # None
    /\ Len(bg.calls) < 3
    /\ \E c \in BOOLEAN :
          bg' = [batchGet_SetConsistentRead(bg, c) EXCEPT
                    !.calls = Append(@, [f |-> "SetConsistentRead", c |-> c])]
    /\ UNCHANGED <<bw, streamVars, builderVars, placeholderVars, tableVars>>

BatchGetBuildCall ==
    /\ bg # None
    /\ Len(bg.calls) < 3
    /\ bg' = [batchGet_build(bg) EXCEPT !.calls = Append(@, [f |-> "build", c |-> FALSE])]
    /\ UNCHANGED <<bw, streamVars, builderVars, placeholderVars, tableVars>>

InitBatchGetChain == NoBuilders /\ NoPlaceholders /\ NoTables /\ NoStream /\ NoBatch

NextBatchGetChain ==
    BatchGetItemInputCall \/ BatchGetSetConsistentReadCall \/ BatchGetBuildCall

SpecBatchGetChain == InitBatchGetChain /\ [][NextBatchGetChain]_vars

(***************************************************************************)
(* C23: for BatchGetItem(keys...).SetConsistentRead(c).build(), the built  *)
(* request has ConsistentRead = c on the table's KeysAndAttributes,        *)
(* although the keys are attached only by the delayed function at build    *)
(* time.                                                                   *)
(***************************************************************************)
C23_ConsistentReadKept ==
    (/\ bg # None
     /\ Len(bg.calls) = 2
     /\ bg.calls[1].f = "SetConsistentRead"
     /\ bg.calls[2].f = "build"
     /\ bg.built.err = "nil") =>
        /\ bg.built.input.RequestItems.set
        /\ bg.built.input.RequestItems.ConsistentRead = BoolPtr(bg.calls[1].c)

(***************************************************************************)
(* C24: in the query and scan stream producers, after a response with a    *)
(* non-nil LastEvaluatedKey and with the limit not yet reached, the next   *)
(* request's ExclusiveStartKey equals that LastEvaluatedKey; the producer  *)
(* sends no further request after a response whose LastEvaluatedKey is     *)
(* nil, after an error, or once the number of delivered items has reached  *)
(* the limit.                                                              *)
(***************************************************************************)
\* the step sends a request to the database; prod.i = 0 before the first
\* response
SendsRequest == prod # None /\ prod.pc = "Execute" /\ prod'.pc # "return"

C24_NextPageKey ==
    [][SendsRequest =>
          /\ prod.failed = "no"
          /\ ~(prod.Limit.set /\ prod.count >= prod.Limit.v)
          /\ prod.i = 0 => ~StreamBuild(prod).ExclusiveStartKey.set
          /\ prod.i > 0 =>
                /\ prod.out.LastEvaluatedKey.set
                /\ StreamBuild(prod).ExclusiveStartKey = prod.out.LastEvaluatedKey]_vars

\* the third request of a stream, after two pages of one item
C24_Witness ==
    /\ prod # None
    /\ prod.pc = "range"
    /\ prod.ExclusiveStartKey = IntPtr(2)
    /\ prod.out.Items = <<3>>
    /\ prod.Limit.set

(***************************************************************************)
(* C25: query.ExecuteWith returns exactly the items the producer goroutine *)
(* sent, in the order sent, none lost or duplicated, and returns a non-nil *)
(* error if and only if the producer reported one, for every interleaving  *)
(* of the producer's sends and closes with the consumer's select.  The     *)
(* producer counts an item before it sends it, and sends the items of the  *)
(* table in key order, so the items sent are the first prod.count items.   *)
(***************************************************************************)
C25_ExecuteWithItems ==
    (/\ prod # None
     /\ prod.op = "query.StreamWith"
     /\ cons.kind = "select"
     /\ cons.state = "done") =>
        /\ prod.pc \in {"return", "closeItems", "done"}
        /\ cons.items = [i \in 1..prod.count |-> i]
        /\ (cons.err # "nil") <=> (prod.failed # "no")

\* two items received, then the error of the third database call
C25_Witness ==
    /\ prod # None
    /\ prod.op = "query.StreamWith"
    /\ cons.kind = "select"
    /\ cons.state = "done"
    /\ cons.items = <<1, 2>>
    /\ cons.err = "error"
    /\ prod.failed = "database"

(***************************************************************************)
(* C30: executing a query or scan leaves the builder unchanged: after the  *)
(* stream has ended (exhausted, stopped at the limit, or failed), the      *)
(* builder's ExclusiveStartKey equals its value before the execution (nil, *)
(* as StreamCall starts with), so that executing the same builder again    *)
(* starts from the first page.  Limit and pageSize are never assigned.     *)
(***************************************************************************)
C30_BuilderUnchanged ==
    (prod # None /\ prod.pc = "done") =>
        /\ prod.ExclusiveStartKey = NilInt
        /\ StreamBuild(prod).ExclusiveStartKey = NilInt

(***************************************************************************)
(* C26: for every And/Or group g with at least two children,               *)
(* Not(g).construct(counter, topLevel) renders g inside parentheses, for   *)
(* topLevel = true as well as for topLevel = false, so that NOT applies to *)
(* the whole group: "NOT (" g ")" at top level, and that in parentheses    *)
(* below the top level.                                                    *)
(***************************************************************************)
C26_NegatedGroup ==
    (/\ Constructed
     /\ expr.kind = "negation"
     /\ expr.expression.kind = "ExpressionGroup"
     /\ Len(expr.expression.expressions) > 1) =>
        LET g == Parens(Rendering(expr.expression, out.counter, TRUE))
        IN out.r.expr = IF out.topLevel THEN <<"NOT ">> \o g
                                        ELSE Parens(<<"NOT ">> \o g)

(***************************************************************************)
(* C27: for a list field, Set(index, v) produces the SET clause            *)
(* "<field>[<index>] = <placeholder>" whose placeholder is bound to v      *)
(* itself, not to a list containing v; only Append binds its placeholder   *)
(* to a one-element list wrapping the value.                               *)
(***************************************************************************)
C27_ListSetBinding ==
    UpdateSet =>
        \A i \in 1..Len(clauses) :
            /\ clauses[i].f.f = "ListSet" =>
                  /\ ClauseString(i) =
                        <<clauses[i].f.name, "[">> \o FormatUint(clauses[i].f.index)
                            \o <<"] = ">> \o ClausePlaceholder(i)
                  /\ u.input.ExpressionAttributeValues[ClausePlaceholder(i)]
                        = Marshal(clauses[i].f.a)
            /\ clauses[i].f.f = "ListAppend" =>
                  u.input.ExpressionAttributeValues[ClausePlaceholder(i)]
                      = [L |-> <<Marshal(clauses[i].f.a)>>]

(***************************************************************************)
(* Build called by the caller, once and again, on a batchGet of few or of  *)
(* many keys and on a batchPut.                                            *)
(***************************************************************************)
\* the 100 of the delayed function of BatchGetItem, which it compares the
\* number of tables of a request with
KeysPerRequest == 100

\* largest number of Build calls on one builder
MaxBuilds == 2

\* the numbers of keys BatchGetItem is called with
KeyCounts == (0..MaxKeys) \cup {KeysPerRequest, KeysPerRequest + 1}

BatchGetItemManyCall ==
    /\ bg = None
    /\ bw = None
    /\ \E n \in KeyCounts : bg' = BatchGetItem([i \in 1..n |-> i])
    /\ UNCHANGED <<bw, streamVars, builderVars, placeholderVars, tableVars>>

\* input, err := d.Build() called by the caller; every call leaves one more
\* request in *d.input
BatchGetBuild ==
    /\ bg # None
    /\ Len(bg.input) < MaxBuilds
    /\ bg' = batchGet_Build(bg)
    /\ UNCHANGED <<bw, streamVars, builderVars, placeholderVars, tableVars>>

\* d.Build() called again on a built batchPut
BatchPutBuildAgain ==
    /\ bw # None
    /\ bw.pc = "built"
    /\ bw.b < MaxBuilds - 1
    /\ bw' = [batchPut_Build(bw) EXCEPT !.b = @ + 1]
    /\ UNCHANGED <<bg, streamVars, builderVars, placeholderVars, tableVars>>

InitBatchBuild == NoBuilders /\ NoPlaceholders /\ NoTables /\ NoStream /\ NoBatch

\* the caller works with one of the two builders
NextBatchBuild ==
    \/ BatchGetItemManyCall
    \/ BatchGetBuild
    \/ (bg = None /\ BatchWriteItemCall)
    \/ PutItemsCall
    \/ DeleteItemsCall
    \/ BatchPutBuildCall
    \/ BatchPutBuildAgain

SpecBatchBuild == InitBatchBuild /\ [][NextBatchBuild]_vars

(***************************************************************************)
(* C28: every BatchGetItemInput built by BatchGetItem holds at most 100    *)
(* keys; a call with more than 100 keys is split over several requests     *)
(* that together contain every requested key exactly once.  Stated for the *)
(* first Build of a batchGet.                                              *)
(***************************************************************************)
C28_RequestKeyLimit ==
    [][(BatchGetBuild /\ bg.input = <<>>) =>
          /\ \A b \in 1..Len(bg'.input) :
                Len(bg'.input[b].RequestItems) <= KeysPerRequest
          /\ ConcatAll([b \in 1..Len(bg'.input) |-> bg'.input[b].RequestItems])
                = bg.items]_vars

(***************************************************************************)
(* C29: for batchPut and batchGet, calling Build twice on the same builder *)
(* returns the same list of requests as calling it once: the second call   *)
(* adds no batch or request and changes none of the existing ones.         *)
(***************************************************************************)
C29_BuildTwice ==
    [][/\ (BatchGetBuild /\ bg.input # <<>>) => bg'.input = bg.input
       /\ BatchPutBuildAgain => bw'.batches = bw.batches]_vars

====
